---- MODULE Spec2Model ----
(***************************************************************************)
(* StitcheSense AR fitting: the ARConnectionManager registry, the          *)
(* /ws/ar-fitting/{session_id} message loop, the DELETE /ar-session        *)
(* endpoint and the process_frame_for_ar pipeline boundary.                *)
(*                                                                         *)
(* Scheduling: the server is one asyncio event loop.  A handler runs       *)
(* without interruption between two awaits that can suspend, which are     *)
(* websocket.accept, websocket.receive_text, websocket.send_json and       *)
(* websocket.close.  process_frame_for_ar only awaits coroutines that      *)
(* never suspend, so a frame is processed and the session statistics are   *)
(* updated in the same uninterrupted step that read the message.           *)
(*                                                                         *)
(* Not modelled: the wall-clock values (connected_at, timestamp, the       *)
(* value of last_processing_time; only its presence is kept), the pixel    *)
(* content of frames, and ARConnectionManager.broadcast, which nothing     *)
(* in the repository calls.                                                *)
(***************************************************************************)
EXTENDS Naturals, FiniteSets, Sequences, TLC

\* Cap on frame_count, so that the counter stays finite.
MaxFrames == 2

\* The connections the model opens (each WebSocket is opened once).
Conns == {"c1", "c2"}

\* The values of the session_id path parameter.
SessionIds == {"s1", "s2"}

\* dress_config.get('type') values carried by the session statistics.
ConfigTypes == {"evening_gown", "wedding_dress"}

VARIABLES
    active_connections, \* ARConnectionManager.active_connections: session_id -> socket
    user_sessions,      \* ARConnectionManager.user_sessions: session_id -> record
    pc,                 \* position of each connection's handler coroutine
    path_sid,           \* the session_id path parameter of each connection
    socket,             \* transport state of each connection's WebSocket
    pending,            \* the send_json a handler is suspended in
    owed,               \* what the frame message being handled still awaits
    inflight,           \* messages read whose handling has not finished
    t_pc,               \* position of the DELETE /ar-session request in flight
    t_sid,              \* its session_id
    p_in,               \* pipeline: the frame bytes given to process_frame_for_ar
    p_cfg,              \* pipeline: the dress_config given to it
    last_result,        \* pipeline: outcome of the last process_frame_for_ar call
    p_stages,           \* pipeline: the stages that call executed, in order
    m_active_connections, \* measurements.ConnectionManager.active_connections
    m_user_connections, \* measurements.ConnectionManager.user_connections
    m_pc,               \* position of each measurement handler coroutine
    m_uid,              \* the user_id path parameter of each connection
    m_socket,           \* transport state of each measurement WebSocket
    m_pending,          \* the send_text a measurement handler is suspended in
    m_timeouts,         \* consecutive receive timeouts of each connection
    b_pc,               \* process start-up: how far the imports have run
    b_inits,            \* number of ARDressAugmentationService.__init__ runs
    b_pose_detector,    \* ar_service.pose_detector exists
    b_tensorflow,       \* outcome of the optional TensorFlow setup
    fu_mp,              \* fusion: the MediaPipe landmark (normalised, visibility)
    fu_tf,              \* fusion: the TensorFlow keypoint (pixels, confidence)
    fu_shape,           \* fusion: image_shape as <<h, w>>
    fu_out,             \* fusion: the enhanced landmark appended, if any
    rd_points,          \* rendering: the landmark ids pose_points holds
    rd_config,          \* rendering: the dress_config dict
    rd_out,             \* rendering: what _apply_dress_augmentation drew
    rd_low,             \* rendering: the landmark ids whose visibility is 0
    cm_landmarks,       \* measuring: pose_results.pose_landmarks.landmark
    cm_shape,           \* measuring: frame_shape as <<h, w>>
    cm_scale,           \* measuring: scale_factor
    cm_out,             \* measuring: the dict _calculate_measurements returned
    rs_shape,           \* resolution: frame.shape[:2] of the decoded frame, <<h, w>>
    rs_pose,            \* resolution: what pose detection does with the frame
    rs_late,            \* resolution: whether a stage after detection raises
    rs_out,             \* resolution: the shapes used and the result returned
    ph_image,           \* single photo: what decoding and detection give
    ph_landmarks,       \* single photo: results.pose_landmarks.landmark
    ph_noise,           \* single photo: the np.random.normal draws
    ph_out,             \* single photo: the dict process_image returned
    cf_conf,            \* confidence: the per-keypoint confidences of a pose
    cf_out,             \* confidence: the pose confidences reported for it
    en_in,              \* enhancement: what each step of the path does
    en_out              \* enhancement: outcome of enhance_pose_with_tensorflow

\* The registry and the sessions' handlers.
svars == <<active_connections, user_sessions, pc, path_sid, socket, pending,
           owed, inflight, t_pc, t_sid>>

\* The frame pipeline taken alone.
pvars == <<p_in, p_cfg, last_result, p_stages>>

\* The real-time measurement WebSocket.
mvars == <<m_active_connections, m_user_connections, m_pc, m_uid, m_socket,
           m_pending, m_timeouts>>

\* Process start-up and the ar_service singleton.
bvars == <<b_pc, b_inits, b_pose_detector, b_tensorflow>>

\* One landmark of _combine_pose_estimates.
fvars == <<fu_mp, fu_tf, fu_shape, fu_out>>

\* One call of _apply_dress_augmentation.
rvars == <<rd_points, rd_config, rd_out, rd_low>>

\* One call of _calculate_measurements.
cvars == <<cm_landmarks, cm_shape, cm_scale, cm_out>>

\* The resolution policy of process_frame_for_ar.
zvars == <<rs_shape, rs_pose, rs_late, rs_out>>

\* One call of BodyMeasurementProcessor.process_image.
hvars == <<ph_image, ph_landmarks, ph_noise, ph_out>>

\* The pose confidence reported by each producer.
kvars == <<cf_conf, cf_out>>

\* One call of enhance_pose_with_tensorflow.
evars == <<en_in, en_out>>

vars == <<svars, pvars, mvars, bvars, fvars, rvars, cvars, zvars, hvars,
          kvars, evars>>

\* What a step of the AR session loop leaves alone.
not_svars ==
    <<pvars, mvars, bvars, fvars, rvars, cvars,
      zvars, hvars, kvars, evars>>

\* What a call of the frame pipeline leaves alone.
not_pvars ==
    <<svars, mvars, bvars, fvars, rvars, cvars,
      zvars, hvars, kvars, evars>>

\* What a step of the measurement WebSocket leaves alone.
not_mvars ==
    <<svars, pvars, bvars, fvars, rvars, cvars,
      zvars, hvars, kvars, evars>>

\* What a step of the process start-up leaves alone.
not_bvars ==
    <<svars, pvars, mvars, fvars, rvars, cvars,
      zvars, hvars, kvars, evars>>

\* What a call of _combine_pose_estimates leaves alone.
not_fvars ==
    <<svars, pvars, mvars, bvars, rvars, cvars,
      zvars, hvars, kvars, evars>>

\* What a call of _apply_dress_augmentation leaves alone.
not_rvars ==
    <<svars, pvars, mvars, bvars, fvars, cvars,
      zvars, hvars, kvars, evars>>

\* What a call of _calculate_measurements leaves alone.
not_cvars ==
    <<svars, pvars, mvars, bvars, fvars, rvars,
      zvars, hvars, kvars, evars>>

\* What a call of process_frame_for_ar, seen through its shapes, leaves alone.
not_zvars ==
    <<svars, pvars, mvars, bvars, fvars, rvars, cvars, hvars, kvars, evars>>

\* What a call of process_image leaves alone.
not_hvars ==
    <<svars, pvars, mvars, bvars, fvars, rvars, cvars, zvars, kvars, evars>>

\* What reporting a pose confidence leaves alone.
not_kvars ==
    <<svars, pvars, mvars, bvars, fvars, rvars, cvars, zvars, hvars, evars>>

\* What a call of enhance_pose_with_tensorflow leaves alone.
not_evars ==
    <<svars, pvars, mvars, bvars, fvars, rvars, cvars, zvars, hvars, kvars>>

----------------------------------------------------------------------------
\* Python dict operations.

DictPut(d, k, v) == [x \in (DOMAIN d) \cup {k} |-> IF x = k THEN v ELSE d[x]]

DictDel(d, k) == [x \in (DOMAIN d) \ {k} |-> d[x]]

EmptyDict == [x \in {} |-> "none"]

----------------------------------------------------------------------------
\* process_frame_for_ar.  A frame input names what each stage does with it.
\*   decode : "raises" (cv2.imdecode raises, frame stays unbound),
\*            "none"   (cv2.imdecode returns None), "image"
\*   detect : "raise", "nopose", "pose"
\*   render, measure, encode : "ok", "raise"

FrameInputs ==
    { f \in [decode : {"raises", "none", "image"},
             detect : {"raise", "nopose", "pose"},
             render : {"ok", "raise"},
             measure : {"ok", "raise"},
             encode : {"ok", "raise"}] :
        /\ (f.decode # "image" => f.detect = "pose" /\ f.encode = "ok")
        /\ (f.detect # "pose" \/ f.decode # "image"
               => f.render = "ok" /\ f.measure = "ok") }

\* The frame inputs the session model sends over the wire: one per outcome
\* of the pipeline that the message loop can tell apart.
WireFrames ==
    { f \in FrameInputs :
        /\ f.measure = "ok" /\ f.encode = "ok"
        /\ f.detect # "raise" }

\* A dress_config as the client sent it: a JSON object with its 'type', or
\* any other JSON value (null, a list, a string).
Configs ==
    { cfg \in [is_dict : BOOLEAN, type : ConfigTypes] :
        ~cfg.is_dict => cfg.type = "evening_gown" }

NoResult ==
    [called |-> FALSE, raised |-> FALSE, success |-> FALSE, message |-> "none",
     frame |-> "none", measurements |-> FALSE, pose_confidence |-> FALSE,
     dress_config |-> FALSE]

\* _encode_frame raises when cv2.imencode does: on None, or on an encoder fault.
EncodeFrameRaises(frame, f) == frame = "None" \/ f.encode = "raise"

\* _apply_dress_augmentation raises on dress_config.get when the config is no
\* dict, or when a drawing call does.
RenderRaises(f, cfg) == ~cfg.is_dict \/ f.render = "raise"

ProcessFramePartial(f, cfg) ==
    IF /\ f.decode = "image" /\ f.detect = "pose" /\ cfg.is_dict
       /\ f.render = "ok" /\ f.measure = "ok" /\ f.encode = "ok"
    THEN [NoResult EXCEPT !.called = TRUE, !.success = TRUE,
                          !.frame = "augmented", !.measurements = TRUE,
                          !.pose_confidence = TRUE, !.dress_config = TRUE]
    ELSE [NoResult EXCEPT !.called = TRUE, !.message = "Processing error",
                          !.frame = "original",
                          !.pose_confidence = (f.detect = "pose")]

ProcessFrame(f, cfg) ==
    LET frame == CASE f.decode = "raises" -> "unbound"
                   [] f.decode = "none" -> "None"
                   [] OTHER -> "image"
        tryRaises ==
            \/ f.decode # "image"
            \/ f.detect = "raise"
            \/ f.detect = "nopose" /\ EncodeFrameRaises(frame, f)
            \/ f.detect = "pose" /\ \/ RenderRaises(f, cfg)
                                    \/ f.measure = "raise"
                                    \/ EncodeFrameRaises(frame, f)
    IN  IF ~tryRaises
        THEN IF f.detect = "nopose"
             THEN [NoResult EXCEPT !.called = TRUE,
                                   !.message = "No pose detected",
                                   !.frame = "original"]
             ELSE [NoResult EXCEPT !.called = TRUE, !.success = TRUE,
                                   !.frame = "augmented",
                                   !.measurements = TRUE,
                                   !.pose_confidence = TRUE,
                                   !.dress_config = TRUE]
        ELSE \* except Exception: 'frame' in locals() holds once frame is bound
             IF frame = "unbound"
             THEN [NoResult EXCEPT !.called = TRUE,
                                   !.message = "Processing error"]
             ELSE IF EncodeFrameRaises(frame, f)
                  THEN [NoResult EXCEPT !.called = TRUE, !.raised = TRUE]
                  ELSE [NoResult EXCEPT !.called = TRUE,
                                        !.message = "Processing error",
                                        !.frame = "original"]

\* The stages a call of process_frame_for_ar executes, in order (lines
\* 91-164).  "encode_original" is _encode_frame(frame) on the undrawn frame,
\* in the no-pose result and in the except clause; "encode" is _encode_frame
\* on the augmented frame.
StagesRun(f, cfg) ==
    LET fallback == IF f.decode = "raises" THEN <<>> ELSE <<"encode_original">>
    IN  IF f.decode # "image" THEN <<"decode">> \o fallback
        ELSE IF f.detect # "pose" THEN <<"decode", "detect">> \o fallback
        ELSE IF RenderRaises(f, cfg)
             THEN <<"decode", "detect", "render">> \o fallback
        ELSE IF f.measure = "raise"
             THEN <<"decode", "detect", "render", "measure">> \o fallback
        ELSE IF f.encode = "raise"
             THEN <<"decode", "detect", "render", "measure", "encode">>
                     \o fallback
        ELSE <<"decode", "detect", "render", "measure", "encode">>

----------------------------------------------------------------------------
\* ARConnectionManager.

NoPending(c) == [type |-> "none", target |-> c, in_try |-> FALSE]

NewSession(c) ==
    [frame_count |-> 0, current_dress |-> "None",
     has_last_processing_time |-> FALSE, owner |-> c]

DisconnectUnguarded(ac, us, s) ==
    [ac |-> DictDel(ac, s), us |-> DictDel(us, s),
     raised |-> s \notin DOMAIN ac]

DisconnectAll(ac, us, s) ==
    [ac |-> EmptyDict, us |-> EmptyDict, raised |-> FALSE]

DisconnectSocketOnly(ac, us, s) ==
    [ac |-> IF s \in DOMAIN ac THEN DictDel(ac, s) ELSE ac,
     us |-> us,
     raised |-> FALSE]

\* disconnect(session_id): the registries after the call, and whether it raised.
Disconnect(ac, us, s) ==
    [ac |-> IF s \in DOMAIN ac THEN DictDel(ac, s) ELSE ac,
     us |-> IF s \in DOMAIN us THEN DictDel(us, s) ELSE us,
     raised |-> FALSE]

----------------------------------------------------------------------------
\* The parts of the server a specification does not exercise stay as the
\* import of their module left them.

\* Cap on the consecutive receive timeouts that are counted.
MaxTimeouts == 3

\* The values of the user_id path parameter of /realtime/{user_id}.
UserIds == {"u1", "u2"}

MNoPending(c) == [type |-> "none", target |-> c, in_try |-> FALSE]

\* measurements.ConnectionManager() with no connection opened.
MeasureWsIdle ==
    /\ m_active_connections = {}
    /\ m_user_connections = EmptyDict
    /\ m_pc = [c \in Conns |-> "idle"]
    /\ m_uid = [c \in Conns |-> "u1"]
    /\ m_socket = [c \in Conns |-> "new"]
    /\ m_pending = [c \in Conns |-> MNoPending(c)]
    /\ m_timeouts = [c \in Conns |-> 0]

\* A rational number n/d in lowest terms.
RECURSIVE GCD(_, _)
GCD(a, b) == IF b = 0 THEN a ELSE GCD(b, a % b)

Frac(n, d) ==
    LET g == GCD(n, d) IN [n |-> n \div g, d |-> d \div g]

NoLandmark ==
    [called |-> FALSE, appended |-> FALSE, x |-> Frac(0, 1), y |-> Frac(0, 1),
     confidence |-> 0]

\* _combine_pose_estimates not called.
FusionIdle ==
    /\ fu_mp = [present |-> FALSE, x |-> Frac(0, 1), y |-> Frac(0, 1),
                visibility |-> 0]
    /\ fu_tf = [present |-> FALSE, x |-> 0, y |-> 0, confidence |-> 0]
    /\ fu_shape = <<1, 1>>
    /\ fu_out = NoLandmark

\* A key of a dict: absent, or present with a value.
Absent(v) == [set |-> FALSE, v |-> v]

Present(v) == [set |-> TRUE, v |-> v]

\* dict.get(key, default)
Get(field, default) == IF field.set THEN field.v ELSE default

NoRender ==
    [called |-> FALSE, drawn |-> {}, blended |-> FALSE, alpha |-> 0]

\* _apply_dress_augmentation not called.
RenderIdle ==
    /\ rd_points = {}
    /\ rd_config = [type |-> "absent", include_veil |-> "absent",
                    opacity |-> Absent(0), bodice_color |-> Absent(<<>>),
                    skirt_color |-> Absent(<<>>), dress_color |-> Absent(<<>>)]
    /\ rd_out = NoRender
    /\ rd_low = {}

NoMeasurements == [called |-> FALSE, measurements |-> EmptyDict]

\* _calculate_measurements not called.
MeasuringIdle ==
    /\ cm_landmarks = [den |-> 1, at |-> EmptyDict]
    /\ cm_shape = <<1, 1>>
    /\ cm_scale = Frac(1, 1)
    /\ cm_out = NoMeasurements

\* process_frame_for_ar not called, seen through the shapes it handles.
NoShapes ==
    [called |-> FALSE, detected |-> FALSE, detect_shape |-> <<0, 0>>,
     scale_one |-> TRUE, success |-> FALSE, message |-> "none",
     frame_shape |-> <<0, 0>>]

ResolutionIdle ==
    /\ rs_shape = <<480, 640>>
    /\ rs_pose = "pose"
    /\ rs_late = "ok"
    /\ rs_out = NoShapes

NoPhotoResult ==
    [called |-> FALSE, success |-> FALSE, error |-> "none",
     measurements |-> EmptyDict]

\* BodyMeasurementProcessor.process_image not called.
PhotoIdle ==
    /\ ph_image = "pose"
    /\ ph_landmarks = [present |-> {}, low |-> {}, wide |-> FALSE]
    /\ ph_noise = [bust |-> 0, waist |-> 0, hips |-> 0, height |-> 0]
    /\ ph_out = NoPhotoResult

NoConfidence ==
    [called |-> FALSE, movenet |-> Frac(0, 1), frame |-> Frac(0, 1),
     photo |-> Frac(0, 1)]

\* No pose confidence reported.
ConfidenceIdle ==
    /\ cf_conf = <<0>>
    /\ cf_out = NoConfidence

\* enhanced_result: for each key, whether it holds more than its initial
\* None, {} or [].
NoEnhancement ==
    [called |-> FALSE, raised |-> FALSE, mediapipe_pose |-> FALSE,
     tensorflow_pose |-> FALSE, person_segmentation |-> FALSE,
     confidence_comparison |-> FALSE, enhanced_landmarks |-> FALSE,
     frame_result |-> NoResult]

\* enhance_pose_with_tensorflow not called.
EnhanceIdle ==
    /\ en_in = [estimator |-> "no_tensorflow", infer |-> "ok",
                segment |-> "ok", landmarks |-> TRUE, combine |-> "ok",
                frame |-> [decode |-> "image", detect |-> "pose",
                           render |-> "ok", measure |-> "ok",
                           encode |-> "ok"]]
    /\ en_out = NoEnhancement

\* The pose analysis parts at rest.
AnalysisIdle ==
    /\ ResolutionIdle
    /\ PhotoIdle
    /\ ConfidenceIdle
    /\ EnhanceIdle

\* The process is serving: app.services.ar_augmentation_service was imported
\* once, ar_service is bound and the routers are mounted.
Serving ==
    /\ b_pc = "serving"
    /\ b_inits = 1
    /\ b_pose_detector = TRUE
    /\ b_tensorflow = "unavailable"

\* ARConnectionManager() with no connection opened and no DELETE in flight.
SessionsIdle ==
    /\ active_connections = EmptyDict
    /\ user_sessions = EmptyDict
    /\ pc = [c \in Conns |-> "idle"]
    /\ path_sid = [c \in Conns |-> "s1"]
    /\ socket = [c \in Conns |-> "new"]
    /\ pending = [c \in Conns |-> NoPending(c)]
    /\ owed = [c \in Conns |-> "na"]
    /\ inflight = [c \in Conns |-> 0]
    /\ t_pc = "idle"
    /\ t_sid = "s1"

\* No call of process_frame_for_ar made.
PipelineIdle ==
    /\ p_in = [decode |-> "image", detect |-> "pose", render |-> "ok",
               measure |-> "ok", encode |-> "ok"]
    /\ p_cfg = [is_dict |-> TRUE, type |-> "evening_gown"]
    /\ last_result = NoResult
    /\ p_stages = <<>>


Init ==
    /\ active_connections = EmptyDict
    /\ user_sessions = EmptyDict
    /\ pc = [c \in Conns |-> "idle"]
    /\ path_sid \in {f \in [Conns -> SessionIds] : f["c1"] = "s1"}
    /\ socket = [c \in Conns |-> "new"]
    /\ pending = [c \in Conns |-> NoPending(c)]
    /\ owed = [c \in Conns |-> "na"]
    /\ inflight = [c \in Conns |-> 0]
    /\ t_pc = "idle"
    /\ t_sid = "s1"
    /\ p_in = [decode |-> "image", detect |-> "pose", render |-> "ok",
               measure |-> "ok", encode |-> "ok"]
    /\ p_cfg = [is_dict |-> TRUE, type |-> "evening_gown"]
    /\ last_result = NoResult
    /\ p_stages = <<>>
    /\ MeasureWsIdle
    /\ FusionIdle
    /\ RenderIdle
    /\ MeasuringIdle
    /\ AnalysisIdle
    /\ Serving

ConnectBeforeServing(c) ==
    /\ pc[c] = "idle"
    /\ pc' = [pc EXCEPT ![c] = "recv"]
    /\ socket' = [socket EXCEPT ![c] = "open"]
    /\ active_connections' = DictPut(active_connections, path_sid[c], c)
    /\ user_sessions' = DictPut(user_sessions, path_sid[c], NewSession(c))
    /\ UNCHANGED <<path_sid, pending, owed, inflight, t_pc, t_sid>>
    /\ UNCHANGED not_svars

\* websocket_ar_fitting up to the loop: connect() accepts and registers.  The
\* route exists once main.py has imported the routers and the server serves.
Connect(c) ==
    /\ b_pc = "serving"
    /\ pc[c] = "idle"
    /\ pc' = [pc EXCEPT ![c] = "recv"]
    /\ socket' = [socket EXCEPT ![c] = "open"]
    /\ active_connections' = DictPut(active_connections, path_sid[c], c)
    /\ user_sessions' = DictPut(user_sessions, path_sid[c], NewSession(c))
    /\ UNCHANGED <<path_sid, pending, owed, inflight, t_pc, t_sid>>
    /\ UNCHANGED not_svars

HandlerExitNoCleanup(c) ==
    /\ pc' = [pc EXCEPT ![c] = "done"]
    /\ pending' = [pending EXCEPT ![c] = NoPending(c)]
    /\ inflight' = [inflight EXCEPT ![c] = 0]
    /\ UNCHANGED <<active_connections, user_sessions>>

\* Leaving the loop: both except clauses of websocket_ar_fitting call
\* disconnect(session_id), and the handler returns.
HandlerExit(c) ==
    LET r == Disconnect(active_connections, user_sessions, path_sid[c])
    IN  /\ pc' = [pc EXCEPT ![c] = "done"]
        /\ pending' = [pending EXCEPT ![c] = NoPending(c)]
        /\ inflight' = [inflight EXCEPT ![c] = 0]
        /\ active_connections' = r.ac
        /\ user_sessions' = r.us

\* send_personal_message up to its await: nothing is sent when the session id
\* has no socket, otherwise the handler suspends in send_json on that socket.
\* reading is 1 when the call handles a message read in this step.
SendPersonalMessage(c, type, in_try, reading) ==
    IF path_sid[c] \in DOMAIN active_connections
    THEN /\ pending' = [pending EXCEPT ![c] =
                 [type |-> type,
                  target |-> active_connections[path_sid[c]],
                  in_try |-> in_try]]
         /\ pc' = [pc EXCEPT ![c] = "send"]
         /\ inflight' = [inflight EXCEPT ![c] = @ + reading]
    ELSE /\ pending' = [pending EXCEPT ![c] = NoPending(c)]
         /\ pc' = [pc EXCEPT ![c] = "recv"]
         /\ inflight' = [inflight EXCEPT ![c] = (@ + reading) - 1]

CanReceiveEager(c) == pc[c] \in {"recv", "send"} /\ socket[c] = "open"

\* The loop reads the next message only at the top of `while True`.
CanReceive(c) == pc[c] = "recv" /\ socket[c] = "open"

\* A message was read.  kind is "na" for a message that is no 'frame', "owed"
\* for a 'frame' that did not reach the pipeline and "processed" for one that
\* did; a 'frame' stays so until its frame_result has been sent.
NoteMessage(c, kind) ==
    owed' = [owed EXCEPT ![c] = kind]

\* json.loads raises, or the JSON value is no object and message.get raises.
RecvMalformed(c) ==
    /\ CanReceive(c)
    /\ NoteMessage(c, "na")
    /\ HandlerExit(c)
    /\ UNCHANGED <<path_sid, socket, t_pc, t_sid>>
    /\ UNCHANGED not_svars

\* A 'frame' message whose frame_data is absent, null or empty (line 199): a
\* warning is logged and nothing is sent.
RecvFrameNoData(c) ==
    /\ CanReceive(c)
    /\ NoteMessage(c, "owed")
    /\ UNCHANGED <<active_connections, user_sessions, pc, path_sid, socket,
                   pending, inflight, t_pc, t_sid>>
    /\ UNCHANGED not_svars

\* A 'frame' message whose frame_data is truthy and has no len() (a JSON number
\* or true): the f-string of line 149 raises outside the inner try.
RecvFrameUnsized(c) ==
    /\ CanReceive(c)
    /\ NoteMessage(c, "owed")
    /\ HandlerExit(c)
    /\ UNCHANGED <<path_sid, socket, t_pc, t_sid>>
    /\ UNCHANGED not_svars

\* A 'frame' message whose frame_data fails in split(',')[1] or b64decode (no
\* comma, not a string, bad padding): the inner except answers.
RecvFrameBadBase64(c) ==
    /\ CanReceive(c)
    /\ NoteMessage(c, "owed")
    /\ SendPersonalMessage(c, "frame_result", FALSE, 1)
    /\ UNCHANGED <<active_connections, user_sessions, path_sid, socket,
                   t_pc, t_sid>>
    /\ UNCHANGED not_svars

\* A 'frame' message whose frame_data decodes to bytes: the frame input fi,
\* with the dress_config cfg (lines 156-197).
RecvFrame(c, fi, cfg) ==
    LET sid == path_sid[c]
        r == ProcessFrame(fi, cfg)
    IN
    /\ CanReceive(c)
    /\ NoteMessage(c, "processed")
    /\ UNCHANGED <<active_connections, path_sid, socket, t_pc, t_sid>>
    /\ UNCHANGED not_svars
    /\ IF r.raised \/ sid \notin DOMAIN user_sessions
       THEN \* the pipeline raised, or line 172 raised KeyError
            /\ SendPersonalMessage(c, "frame_result", FALSE, 1)
            /\ UNCHANGED user_sessions
       ELSE /\ user_sessions[sid].frame_count < MaxFrames
            /\ IF ~cfg.is_dict
               THEN \* line 173 raises after line 172 counted
                    /\ user_sessions' =
                         [user_sessions EXCEPT ![sid].frame_count = @ + 1]
                    /\ SendPersonalMessage(c, "frame_result", FALSE, 1)
               ELSE /\ user_sessions' =
                         [user_sessions EXCEPT
                            ![sid].frame_count = @ + 1,
                            ![sid].current_dress = cfg.type,
                            ![sid].has_last_processing_time = TRUE]
                    /\ SendPersonalMessage(c, "frame_result", TRUE, 1)

\* A 'change_dress' message (lines 201-210).
RecvChangeDress(c, cfg) ==
    LET sid == path_sid[c]
    IN
    /\ CanReceive(c)
    /\ UNCHANGED <<path_sid, socket, t_pc, t_sid>>
    /\ UNCHANGED not_svars
    /\ NoteMessage(c, "na")
    /\ IF ~cfg.is_dict \/ sid \notin DOMAIN user_sessions
       THEN \* AttributeError or KeyError reaches the outer except
            HandlerExit(c)
       ELSE /\ user_sessions' =
                 [user_sessions EXCEPT ![sid].current_dress = cfg.type]
            /\ SendPersonalMessage(c, "dress_changed", FALSE, 1)
            /\ UNCHANGED active_connections

\* 'get_session_info' and 'ping' (lines 212-226): one answer, no state change.
RecvQuery(c, answer) ==
    /\ CanReceive(c)
    /\ NoteMessage(c, "na")
    /\ SendPersonalMessage(c, answer, FALSE, 1)
    /\ UNCHANGED <<active_connections, user_sessions, path_sid, socket,
                   t_pc, t_sid>>
    /\ UNCHANGED not_svars

\* A message whose 'type' is none of the four handled ones (or absent): no
\* branch runs and the loop reads on.
RecvOther(c) ==
    /\ CanReceive(c)
    /\ NoteMessage(c, "na")
    /\ UNCHANGED <<active_connections, user_sessions, pc, path_sid, socket,
                   pending, inflight, t_pc, t_sid>>
    /\ UNCHANGED not_svars

\* receive_text raises: WebSocketDisconnect after the client left, or the
\* transport's error after the server closed the socket.
RecvRaises(c) ==
    /\ pc[c] = "recv"
    /\ socket[c] \in {"client_closed", "server_closed"}
    /\ HandlerExit(c)
    /\ UNCHANGED <<path_sid, socket, owed, t_pc, t_sid>>
    /\ UNCHANGED not_svars

\* send_json returns.  After the client left, the transport may still accept
\* the message.
SendReturns(c) ==
    /\ pc[c] = "send"
    /\ socket[pending[c].target] \in {"open", "client_closed"}
    /\ owed' = [owed EXCEPT ![c] =
                  IF pending[c].type # "frame_result" THEN @
                  ELSE IF @ \in {"owed", "processed"} THEN "na" ELSE "twice"]
    /\ pending' = [pending EXCEPT ![c] = NoPending(c)]
    /\ pc' = [pc EXCEPT ![c] = "recv"]
    /\ inflight' = [inflight EXCEPT ![c] = @ - 1]
    /\ UNCHANGED <<active_connections, user_sessions, path_sid, socket,
                   t_pc, t_sid>>
    /\ UNCHANGED not_svars

\* send_json raises on a closed socket.  Inside the inner try (line 177) the
\* inner except sends the error frame_result (line 188); anywhere else the
\* exception reaches the outer except.
SendRaises(c) ==
    /\ pc[c] = "send"
    /\ socket[pending[c].target] \in {"client_closed", "server_closed"}
    /\ UNCHANGED <<path_sid, socket, owed, t_pc, t_sid>>
    /\ UNCHANGED not_svars
    /\ IF pending[c].in_try
       THEN /\ SendPersonalMessage(c, "frame_result", FALSE, 0)
            /\ UNCHANGED <<active_connections, user_sessions>>
       ELSE HandlerExit(c)

\* The client closes its end.
ClientClose(c) ==
    /\ pc[c] \in {"recv", "send"}
    /\ socket[c] = "open"
    /\ socket' = [socket EXCEPT ![c] = "client_closed"]
    /\ UNCHANGED <<active_connections, user_sessions, pc, path_sid, pending,
                   owed, inflight, t_pc, t_sid>>
    /\ UNCHANGED not_svars

\* terminate_ar_session, session registered: websocket.close() marks the
\* socket closed and suspends (lines 408-410).
TerminateBegin(s) ==
    /\ t_pc = "idle"
    /\ s \in DOMAIN active_connections
    /\ socket[active_connections[s]] \in {"open", "client_closed"}
    /\ socket' = [socket EXCEPT ![active_connections[s]] = "server_closed"]
    /\ t_pc' = "closing"
    /\ t_sid' = s
    /\ UNCHANGED <<active_connections, user_sessions, pc, path_sid, pending,
                   owed, inflight>>
    /\ UNCHANGED not_svars

\* terminate_ar_session, close() raises on a socket that is no longer open:
\* HTTP 500, disconnect is not reached (lines 419-421).
TerminateCloseRaises(s) ==
    /\ t_pc = "idle"
    /\ s \in DOMAIN active_connections
    /\ socket[active_connections[s]] # "open"
    /\ UNCHANGED <<active_connections, user_sessions, pc, path_sid, socket,
                   pending, owed, inflight, t_pc, t_sid>>
    /\ UNCHANGED not_svars

\* terminate_ar_session, session not registered: disconnect and answer.
TerminateAbsent(s) ==
    LET r == Disconnect(active_connections, user_sessions, s)
    IN  /\ t_pc = "idle"
        /\ s \notin DOMAIN active_connections
        /\ active_connections' = r.ac
        /\ user_sessions' = r.us
        /\ UNCHANGED <<pc, path_sid, socket, pending, owed, inflight,
                       t_pc, t_sid>>
        /\ UNCHANGED not_svars

\* terminate_ar_session resumes after close(): disconnect and answer
\* (lines 412-417).
TerminateFinish(s) ==
    LET r == Disconnect(active_connections, user_sessions, s)
    IN  /\ t_pc = "closing"
        /\ t_sid = s
        /\ active_connections' = r.ac
        /\ user_sessions' = r.us
        /\ t_pc' = "idle"
        /\ t_sid' = "s1"
        /\ UNCHANGED <<pc, path_sid, socket, pending, owed, inflight>>
        /\ UNCHANGED not_svars

Next ==
    \/ \E c \in Conns : Connect(c)
    \/ \E c \in Conns : RecvMalformed(c)
    \/ \E c \in Conns : RecvFrameNoData(c)
    \/ \E c \in Conns : RecvFrameUnsized(c)
    \/ \E c \in Conns : RecvFrameBadBase64(c)
    \/ \E c \in Conns, fi \in WireFrames, cfg \in Configs : RecvFrame(c, fi, cfg)
    \/ \E c \in Conns, cfg \in Configs : RecvChangeDress(c, cfg)
    \/ \E c \in Conns, a \in {"session_info", "pong"} : RecvQuery(c, a)
    \/ \E c \in Conns : RecvOther(c)
    \/ \E c \in Conns : RecvRaises(c)
    \/ \E c \in Conns : SendReturns(c)
    \/ \E c \in Conns : SendRaises(c)
    \/ \E c \in Conns : ClientClose(c)
    \/ \E s \in SessionIds : TerminateBegin(s)
    \/ \E s \in SessionIds : TerminateCloseRaises(s)
    \/ \E s \in SessionIds : TerminateAbsent(s)
    \/ \E s \in SessionIds : TerminateFinish(s)

Spec == Init /\ [][Next]_vars

----------------------------------------------------------------------------
\* The frame pipeline taken alone: process_frame_for_ar applied to every frame
\* input and dress_config, by either caller.

InitPipeline ==
    /\ active_connections = EmptyDict
    /\ user_sessions = EmptyDict
    /\ pc = [c \in Conns |-> "idle"]
    /\ path_sid = [c \in Conns |-> "s1"]
    /\ socket = [c \in Conns |-> "new"]
    /\ pending = [c \in Conns |-> NoPending(c)]
    /\ owed = [c \in Conns |-> "na"]
    /\ inflight = [c \in Conns |-> 0]
    /\ t_pc = "idle"
    /\ t_sid = "s1"
    /\ p_in \in FrameInputs
    /\ p_cfg \in Configs
    /\ last_result = NoResult
    /\ p_stages = <<>>
    /\ MeasureWsIdle
    /\ FusionIdle
    /\ RenderIdle
    /\ MeasuringIdle
    /\ AnalysisIdle
    /\ Serving

\* await ar_service.process_frame_for_ar(frame_bytes, dress_config)
PipelineCall ==
    /\ last_result' = ProcessFrame(p_in, p_cfg)
    /\ p_stages' = StagesRun(p_in, p_cfg)
    /\ UNCHANGED <<p_in, p_cfg>>
    /\ UNCHANGED not_pvars

\* The next frame arrives.
PipelineNextFrame ==
    /\ last_result.called
    /\ p_in' \in FrameInputs
    /\ p_cfg' \in Configs
    /\ UNCHANGED <<last_result, p_stages>>
    /\ UNCHANGED not_pvars

NextPipeline == PipelineCall \/ PipelineNextFrame

SpecPipeline == InitPipeline /\ [][NextPipeline]_vars

----------------------------------------------------------------------------
\* Properties of the session loop, the registry and the pipeline boundary.

\* Connection c holds the registration of its session id: the socket entry is
\* its socket and the session record is the one its connect() created.
Registered(c) ==
    /\ pc[c] \in {"recv", "send"}
    /\ path_sid[c] \in DOMAIN active_connections
    /\ path_sid[c] \in DOMAIN user_sessions
    /\ active_connections[path_sid[c]] = c
    /\ user_sessions[path_sid[c]].owner = c

\* A step of connection d's handler coroutine.
HandlerStep(d) ==
    \/ Connect(d)
    \/ RecvMalformed(d)
    \/ RecvFrameNoData(d)
    \/ RecvFrameUnsized(d)
    \/ RecvFrameBadBase64(d)
    \/ \E fi \in WireFrames, cfg \in Configs : RecvFrame(d, fi, cfg)
    \/ \E cfg \in Configs : RecvChangeDress(d, cfg)
    \/ \E a \in {"session_info", "pong"} : RecvQuery(d, a)
    \/ RecvOther(d)
    \/ RecvRaises(d)
    \/ SendReturns(d)
    \/ SendRaises(d)

\* The entries of session id s are the same before and after the step.
EntriesUnchanged(s) ==
    /\ (s \in DOMAIN active_connections) = (s \in DOMAIN active_connections')
    /\ (s \in DOMAIN user_sessions) = (s \in DOMAIN user_sessions')
    /\ s \in DOMAIN active_connections =>
           active_connections'[s] = active_connections[s]
    /\ s \in DOMAIN user_sessions => user_sessions'[s] = user_sessions[s]

\* C1: whenever the loop is back at receive_text after a 'frame' message,
\* exactly one frame_result has been sent for that message, and at no point
\* have two been sent for one message.
C1_ExactlyOneFrameResult ==
    \A c \in Conns :
        /\ owed[c] # "twice"
        /\ pc[c] = "recv" => owed[c] = "na"

\* C2: every call of process_frame_for_ar returns a result (no exception
\* escapes), and a result with success=false carries a message.
C2_PipelineTotal ==
    last_result.called =>
        /\ ~last_result.raised
        /\ ~last_result.success => last_result.message # "none"

\* A step in which connection c reads a 'frame' message whose handling fails.
BadFrameStep(c) ==
    \/ RecvFrameUnsized(c)
    \/ RecvFrameBadBase64(c)
    \/ \E fi \in WireFrames, cfg \in Configs :
          /\ RecvFrame(c, fi, cfg)
          /\ LET r == ProcessFrame(fi, cfg) IN r.raised \/ ~r.success

\* C3: a 'frame' message whose handling fails leaves the session registered
\* with its record and the handler inside its loop.
C3_BadFrameKeepsSession ==
    [][\A c \in Conns :
          Registered(c) /\ BadFrameStep(c) =>
              /\ pc'[c] \in {"recv", "send"}
              /\ path_sid[c] \in DOMAIN active_connections'
              /\ path_sid[c] \in DOMAIN user_sessions']_vars

\* C4: in every reachable registry, for every session id s, disconnect(s)
\* followed by disconnect(s) raises nothing and gives the registry of the
\* first call; on an id that is not registered the first call changes
\* nothing; and the entries of every other id are those before the calls.
C4_DisconnectIdempotent ==
    \A s \in SessionIds :
        LET r1 == Disconnect(active_connections, user_sessions, s)
            r2 == Disconnect(r1.ac, r1.us, s)
        IN  /\ ~r1.raised /\ ~r2.raised
            /\ r2.ac = r1.ac /\ r2.us = r1.us
            /\ s \notin DOMAIN r1.ac /\ s \notin DOMAIN r1.us
            /\ (s \notin DOMAIN active_connections /\ s \notin DOMAIN user_sessions)
                  => r1.ac = active_connections /\ r1.us = user_sessions
            /\ \A t \in SessionIds \ {s} :
                  /\ (t \in DOMAIN r2.ac) = (t \in DOMAIN active_connections)
                  /\ (t \in DOMAIN r2.us) = (t \in DOMAIN user_sessions)
                  /\ t \in DOMAIN active_connections =>
                         r2.ac[t] = active_connections[t]
                  /\ t \in DOMAIN user_sessions => r2.us[t] = user_sessions[t]

\* C4 witness: session s1 was disconnected twice (by the DELETE endpoint and by
\* its handler's except clause) while s2 is registered with a counted frame.
C4_Witness ==
    /\ pc["c1"] = "done" /\ socket["c1"] = "server_closed"
    /\ t_pc = "idle"
    /\ "s1" \notin DOMAIN active_connections
    /\ "s2" \in DOMAIN user_sessions
    /\ user_sessions["s2"].frame_count >= 1
    /\ user_sessions["s2"].current_dress # "None"

\* C5: a step of one connection's handler (connect, a handled message, a
\* disconnect) neither changes nor removes the socket entry and the session
\* record that another connection holds, and it changes a session record only
\* if that connection created it.
C5_NoCrossSessionMutation ==
    [][\A d \in Conns :
          HandlerStep(d) =>
              /\ \A c \in Conns \ {d} :
                    Registered(c) => EntriesUnchanged(path_sid[c])
              /\ \A s \in DOMAIN user_sessions :
                    (s \in DOMAIN user_sessions'
                       /\ user_sessions'[s] # user_sessions[s]
                       /\ user_sessions'[s].owner = user_sessions[s].owner)
                    => user_sessions[s].owner = d]_vars

\* C6: every message a handler sends goes to the socket of its own connection.
C6_ResultsToOwnSocket ==
    \A c \in Conns : pc[c] = "send" => pending[c].target = c

\* C7: a connection has at most one message in flight: none while its loop
\* waits in receive_text, and exactly the one being answered while it is
\* suspended in send_json.
C7_OneInFlight ==
    \A c \in Conns :
        /\ inflight[c] <= 1
        /\ pc[c] = "recv" => inflight[c] = 0
        /\ pc[c] = "send" => inflight[c] = 1 /\ pending[c].type # "none"

\* C7 witness: a frame was counted and its frame_result is being sent; the
\* loop has not read the next message.
C7_Witness ==
    /\ pc["c1"] = "send" /\ pending["c1"].type = "frame_result"
    /\ pending["c1"].in_try /\ inflight["c1"] = 1
    /\ user_sessions["s1"].frame_count = 2

\* C8: in the step in which a handler leaves its loop and returns, its
\* session id is in neither registry.
C8_ExitCleansUp ==
    [][\A c \in Conns :
          (pc[c] \in {"recv", "send"} /\ pc'[c] = "done") =>
              /\ path_sid[c] \notin DOMAIN active_connections'
              /\ path_sid[c] \notin DOMAIN user_sessions']_vars

\* C8 witness: a handler has left its loop after its client went away, while
\* the other connection is still in its loop.
C8_Witness ==
    /\ pc["c1"] = "done" /\ socket["c1"] = "client_closed"
    /\ "s1" \notin DOMAIN active_connections
    /\ "s1" \notin DOMAIN user_sessions
    /\ pc["c2"] = "recv"

\* C9: when terminate_ar_session(s) answers 200, s is in neither registry,
\* the entries of every other session id are unchanged, and no handler of
\* another session id is disturbed: its position, its pending send and its
\* socket are as before; closing the socket touches only the socket of s.
C9_TerminateReleasesOnlyItsSession ==
    [][\A s \in SessionIds :
          /\ (TerminateFinish(s) \/ TerminateAbsent(s)) =>
                /\ s \notin DOMAIN active_connections'
                /\ s \notin DOMAIN user_sessions'
                /\ \A t \in SessionIds \ {s} : EntriesUnchanged(t)
                /\ \A c \in Conns : path_sid[c] # s =>
                      /\ pc'[c] = pc[c]
                      /\ pending'[c] = pending[c]
                      /\ socket'[c] = socket[c]
          /\ TerminateBegin(s) =>
                \A c \in Conns : path_sid[c] # s => socket'[c] = socket[c]]_vars

\* C9 witness: DELETE of s1 has answered 200 while the frame_result of a frame
\* of session s2 is still being sent.
C9_Witness ==
    /\ t_pc = "idle"
    /\ socket["c1"] = "server_closed"
    /\ "s1" \notin DOMAIN active_connections
    /\ path_sid["c2"] = "s2" /\ pc["c2"] = "send"
    /\ pending["c2"].type = "frame_result" /\ pending["c2"].in_try
    /\ socket["c2"] = "open"

\* C10: a frame reaches the pipeline only while the connection's session id
\* is registered in the manager.
C10_OnlyActiveAcceptsFrames ==
    [][\A c \in Conns :
          (\E fi \in WireFrames, cfg \in Configs : RecvFrame(c, fi, cfg)) =>
              /\ path_sid[c] \in DOMAIN active_connections
              /\ path_sid[c] \in DOMAIN user_sessions]_vars

----------------------------------------------------------------------------
\* The real-time measurement WebSocket /realtime/{user_id}
\* (measurements.ConnectionManager and websocket_measurement_endpoint).
\* The handler suspends in websocket.accept, in wait_for(receive_text) and in
\* send_text; process_image never suspends.

\* The answers sent from inside the inner try body: a send that raises there
\* is caught by the inner `except Exception`.
MAnswerTypes ==
    {"heartbeat", "measurement_update", "measurement_error", "decode_error"}

\* ConnectionManager.disconnect(websocket, user_id): the registries after it.
MDisconnect(ac, uc, c, u) ==
    [ac |-> ac \ {c},
     uc |-> IF u \in DOMAIN uc THEN DictDel(uc, u) ELSE uc]

\* send_measurement_data / send_personal_message up to the await: nothing is
\* sent when the user id has no socket, otherwise the handler suspends in
\* send_text on the socket registered for the user id.
MSend(c, type, in_try) ==
    IF m_uid[c] \in DOMAIN m_user_connections
    THEN /\ m_pending' = [m_pending EXCEPT ![c] =
                 [type |-> type,
                  target |-> m_user_connections[m_uid[c]],
                  in_try |-> in_try]]
         /\ m_pc' = [m_pc EXCEPT ![c] = "send"]
    ELSE /\ m_pending' = [m_pending EXCEPT ![c] = MNoPending(c)]
         /\ m_pc' = [m_pc EXCEPT ![c] = "recv"]

\* Both outer except clauses: disconnect(websocket, user_id), and the handler
\* returns, after which the server closes the socket.
MHandlerExit(c) ==
    LET r == MDisconnect(m_active_connections, m_user_connections, c, m_uid[c])
    IN  /\ m_pc' = [m_pc EXCEPT ![c] = "done"]
        /\ m_pending' = [m_pending EXCEPT ![c] = MNoPending(c)]
        /\ m_active_connections' = r.ac
        /\ m_user_connections' = r.uc
        /\ m_socket' = [m_socket EXCEPT ![c] =
                          IF @ = "open" THEN "server_closed" ELSE @]

\* manager.connect (accept, append, register) and the welcome message
\* (lines 154-157 and 185-195).
MConnect(c) ==
    /\ m_pc[c] = "idle"
    /\ m_socket' = [m_socket EXCEPT ![c] = "open"]
    /\ m_active_connections' = m_active_connections \cup {c}
    /\ m_user_connections' = DictPut(m_user_connections, m_uid[c], c)
    /\ m_pending' = [m_pending EXCEPT ![c] =
            [type |-> "connection_established", target |-> c,
             in_try |-> FALSE]]
    /\ m_pc' = [m_pc EXCEPT ![c] = "send"]
    /\ UNCHANGED <<m_uid, m_timeouts>>
    /\ UNCHANGED not_mvars

\* wait_for(receive_text, 30.0) raises TimeoutError on a connected, silent
\* client: the handler sends 'ping' (lines 257-265).
MTimeout(c) ==
    /\ m_pc[c] = "recv"
    /\ m_socket[c] = "open"
    /\ m_timeouts[c] < MaxTimeouts
    /\ m_timeouts' = [m_timeouts EXCEPT ![c] = @ + 1]
    /\ MSend(c, "ping", FALSE)
    /\ UNCHANGED <<m_active_connections, m_user_connections, m_uid, m_socket>>
    /\ UNCHANGED not_mvars

\* A JSON object arrives: a heartbeat, or an image whose processing gives
\* measurements, an error or a decode error (lines 204-255).
MRecvData(c, type) ==
    /\ m_pc[c] = "recv"
    /\ m_socket[c] = "open"
    /\ m_timeouts' = [m_timeouts EXCEPT ![c] = 0]
    /\ MSend(c, type, TRUE)
    /\ UNCHANGED <<m_active_connections, m_user_connections, m_uid, m_socket>>
    /\ UNCHANGED not_mvars

\* Text that is no JSON: send_personal_message("Invalid data format")
\* (lines 267-269).
MRecvMalformed(c) ==
    /\ m_pc[c] = "recv"
    /\ m_socket[c] = "open"
    /\ m_timeouts' = [m_timeouts EXCEPT ![c] = 0]
    /\ MSend(c, "invalid_format", FALSE)
    /\ UNCHANGED <<m_active_connections, m_user_connections, m_uid, m_socket>>
    /\ UNCHANGED not_mvars

\* receive_text raises after the client left, or the JSON value is no object
\* and frame_data.get raises: the inner `except Exception` sends
\* 'processing_error' (lines 271-278).
MRecvRaises(c) ==
    /\ m_pc[c] = "recv"
    /\ m_socket[c] \in {"open", "client_closed"}
    /\ m_timeouts' = [m_timeouts EXCEPT ![c] = 0]
    /\ MSend(c, "processing_error", FALSE)
    /\ UNCHANGED <<m_active_connections, m_user_connections, m_uid, m_socket>>
    /\ UNCHANGED not_mvars

\* send_text returns.  After the client left, the transport may still accept
\* the message.
MSendReturns(c) ==
    /\ m_pc[c] = "send"
    /\ m_socket[m_pending[c].target] \in {"open", "client_closed"}
    /\ m_pending' = [m_pending EXCEPT ![c] = MNoPending(c)]
    /\ m_pc' = [m_pc EXCEPT ![c] = "recv"]
    /\ UNCHANGED <<m_active_connections, m_user_connections, m_uid, m_socket,
                   m_timeouts>>
    /\ UNCHANGED not_mvars

\* send_text raises on a closed socket.  From the inner try body the inner
\* except sends 'processing_error'; from an except clause or from the welcome
\* message the exception reaches the outer except.
MSendRaises(c) ==
    /\ m_pc[c] = "send"
    /\ m_socket[m_pending[c].target] \in {"client_closed", "server_closed"}
    /\ UNCHANGED <<m_uid, m_timeouts>>
    /\ UNCHANGED not_mvars
    /\ IF m_pending[c].in_try
       THEN /\ MSend(c, "processing_error", FALSE)
            /\ UNCHANGED <<m_active_connections, m_user_connections, m_socket>>
       ELSE MHandlerExit(c)

\* The client closes its end.
MClientClose(c) ==
    /\ m_pc[c] \in {"recv", "send"}
    /\ m_socket[c] = "open"
    /\ m_socket' = [m_socket EXCEPT ![c] = "client_closed"]
    /\ UNCHANGED <<m_active_connections, m_user_connections, m_pc, m_uid,
                   m_pending, m_timeouts>>
    /\ UNCHANGED not_mvars

InitMeasureWs ==
    /\ SessionsIdle
    /\ PipelineIdle
    /\ m_active_connections = {}
    /\ m_user_connections = EmptyDict
    /\ m_pc = [c \in Conns |-> "idle"]
    /\ m_uid \in {f \in [Conns -> UserIds] : f["c1"] = "u1"}
    /\ m_socket = [c \in Conns |-> "new"]
    /\ m_pending = [c \in Conns |-> MNoPending(c)]
    /\ m_timeouts = [c \in Conns |-> 0]
    /\ Serving
    /\ FusionIdle
    /\ RenderIdle
    /\ MeasuringIdle
    /\ AnalysisIdle

NextMeasureWs ==
    \/ \E c \in Conns : MConnect(c)
    \/ \E c \in Conns : MTimeout(c)
    \/ \E c \in Conns, t \in MAnswerTypes : MRecvData(c, t)
    \/ \E c \in Conns : MRecvMalformed(c)
    \/ \E c \in Conns : MRecvRaises(c)
    \/ \E c \in Conns : MSendReturns(c)
    \/ \E c \in Conns : MSendRaises(c)
    \/ \E c \in Conns : MClientClose(c)

SpecMeasureWs == InitMeasureWs /\ [][NextMeasureWs]_vars

\* C11: a receive timeout on a connected, silent client makes the server send
\* 'ping' and leaves the connection in active_connections with its handler
\* in the loop; and the step that resolves the ping's send_text, while the
\* client's own socket is still open, leaves it so too: the handler is back
\* at receive_text and the connection is still in active_connections.
C11_TimeoutPingsAndKeeps ==
    [][\A c \in Conns :
          /\ MTimeout(c) =>
                /\ m_pc'[c] = "send"
                /\ m_pending'[c].type = "ping"
                /\ c \in m_active_connections'
          /\ (m_pc[c] = "send" /\ m_pending[c].type = "ping"
                /\ m_socket[c] = "open" /\ m_pc'[c] # "send") =>
                /\ m_pc'[c] = "recv"
                /\ c \in m_active_connections']_vars

----------------------------------------------------------------------------
\* The shape of the results of process_frame_for_ar.

\* C12: a result of process_frame_for_ar with success=false carries neither
\* 'measurements' nor 'pose_confidence' (nor 'dress_config'), and a result
\* with success=true carries the encoded augmented frame, the measurements,
\* the pose_confidence and the dress_config.
C12_ResultNeverPartial ==
    (last_result.called /\ ~last_result.raised) =>
        /\ ~last_result.success =>
              /\ ~last_result.measurements
              /\ ~last_result.pose_confidence
              /\ ~last_result.dress_config
        /\ last_result.success =>
              /\ last_result.frame = "augmented"
              /\ last_result.measurements
              /\ last_result.pose_confidence
              /\ last_result.dress_config

\* C12 witness: a frame whose pose was detected and rendered failed in
\* _calculate_measurements, and the result returned is the bare error result.
C12_Witness ==
    /\ last_result.called /\ ~last_result.raised /\ ~last_result.success
    /\ p_in.detect = "pose" /\ p_in.render = "ok" /\ p_in.measure = "raise"
    /\ p_cfg.is_dict
    /\ last_result.message = "Processing error"
    /\ last_result.frame = "original"

----------------------------------------------------------------------------
\* Process start-up.  main.py imports app.api.ar_augmentation, whose import
\* of app.services.ar_augmentation_service runs that module once: the guarded
\* TensorFlow import, then `ar_service = ARDressAugmentationService()`.  An
\* exception there fails the import and the process serves nothing.

\* try: import tensorflow ... except ImportError (lines 8-13).
BootImportTensorflow(available) ==
    /\ b_pc = "start"
    /\ b_pc' = IF available THEN "tf_imported" ELSE "tf_missing"
    /\ UNCHANGED <<b_inits, b_pose_detector, b_tensorflow>>
    /\ UNCHANGED not_bvars

\* __init__ up to the pose detector (lines 30-37): mp.solutions.pose.Pose
\* returns, or raises and the import fails.
BootCreatePoseDetector(ok) ==
    /\ b_pc \in {"tf_imported", "tf_missing"}
    /\ b_inits' = b_inits + 1
    /\ b_pose_detector' = ok
    /\ b_pc' = IF ~ok THEN "failed"
               ELSE IF b_pc = "tf_imported" THEN "pose_ready_tf"
               ELSE "pose_ready"
    /\ UNCHANGED b_tensorflow
    /\ UNCHANGED not_bvars

\* The rest of __init__ (lines 39-63): tensorflow_available is
\* TENSORFLOW_AVAILABLE, cleared when _load_tensorflow_models fails; then
\* ar_service is bound (line 463).
BootSetupTensorflow(ok) ==
    /\ b_pc \in {"pose_ready_tf", "pose_ready"}
    /\ b_pc = "pose_ready" => ok
    /\ b_tensorflow' = IF b_pc = "pose_ready_tf" /\ ok THEN "available"
                       ELSE "unavailable"
    /\ b_pc' = "initialised"
    /\ UNCHANGED <<b_inits, b_pose_detector>>
    /\ UNCHANGED not_bvars

\* main.py mounts the routers and the server starts accepting connections.
BootServe ==
    /\ b_pc = "initialised"
    /\ b_pc' = "serving"
    /\ UNCHANGED <<b_inits, b_pose_detector, b_tensorflow>>
    /\ UNCHANGED not_bvars

InitBoot ==
    /\ active_connections = EmptyDict
    /\ user_sessions = EmptyDict
    /\ pc = [c \in Conns |-> "idle"]
    /\ path_sid \in {f \in [Conns -> SessionIds] : f["c1"] = "s1"}
    /\ socket = [c \in Conns |-> "new"]
    /\ pending = [c \in Conns |-> NoPending(c)]
    /\ owed = [c \in Conns |-> "na"]
    /\ inflight = [c \in Conns |-> 0]
    /\ t_pc = "idle"
    /\ t_sid = "s1"
    /\ PipelineIdle
    /\ MeasureWsIdle
    /\ FusionIdle
    /\ RenderIdle
    /\ MeasuringIdle
    /\ AnalysisIdle
    /\ b_pc = "start"
    /\ b_inits = 0
    /\ b_pose_detector = FALSE
    /\ b_tensorflow = "unresolved"

\* Start-up followed by sessions that connect, query, and leave.
NextBoot ==
    \/ \E a \in BOOLEAN : BootImportTensorflow(a)
    \/ \E ok \in BOOLEAN : BootCreatePoseDetector(ok)
    \/ \E ok \in BOOLEAN : BootSetupTensorflow(ok)
    \/ BootServe
    \/ \E c \in Conns : Connect(c)
    \/ \E c \in Conns, a \in {"session_info", "pong"} : RecvQuery(c, a)
    \/ \E c \in Conns : RecvMalformed(c)
    \/ \E c \in Conns : RecvRaises(c)
    \/ \E c \in Conns : SendReturns(c)
    \/ \E c \in Conns : SendRaises(c)
    \/ \E c \in Conns : ClientClose(c)

SpecBoot == InitBoot /\ [][NextBoot]_vars

\* C13: __init__ of the ar_service singleton runs at most once, and whenever
\* a session is registered or a handler has started, the start-up has
\* finished: __init__ ran exactly once, the pose detector exists and the
\* TensorFlow setup is resolved as available or unavailable.
C13_ReadyBeforeSessions ==
    /\ b_inits <= 1
    /\ ((\E c \in Conns : pc[c] # "idle")
          \/ DOMAIN active_connections # {} \/ DOMAIN user_sessions # {})
       => /\ b_pc = "serving"
          /\ b_inits = 1
          /\ b_pose_detector
          /\ b_tensorflow \in {"available", "unavailable"}

\* C13 witness: two sessions are registered at once, after a start-up in
\* which TensorFlow was importable and its setup completed.
C13_Witness ==
    /\ DOMAIN active_connections = {"s1", "s2"}
    /\ pc["c1"] = "recv" /\ pc["c2"] = "send"
    /\ b_inits = 1
    /\ b_tensorflow = "available"

----------------------------------------------------------------------------
\* Pose fusion: TensorFlowPoseEstimator._combine_pose_estimates, one pass of
\* its loop over the common landmarks.  Coordinates and quotients are exact
\* rationals; a confidence k stands for k / ConfSteps.

\* Number of steps into which the confidence range [0, 1] is divided.
ConfSteps == 2

Confidences == 0 .. ConfSteps

\* Normalised MediaPipe coordinates.
NormCoords == {Frac(0, 1), Frac(1, 3), Frac(1, 2)}

\* Pixel coordinates of a TensorFlow keypoint.
TfCoords == {0, 3, 5}

\* image.shape[:2] as <<h, w>>.
ImageShapes == {<<4, 6>>, <<6, 9>>}

MpLandmarks ==
    [present : {TRUE}, x : NormCoords, y : NormCoords \ {Frac(1, 3)},
     visibility : Confidences]
      \cup {[present |-> FALSE, x |-> Frac(0, 1), y |-> Frac(0, 1),
             visibility |-> 0]}

TfKeypoints ==
    [present : {TRUE}, x : TfCoords, y : TfCoords \ {5},
     confidence : Confidences]
      \cup {[present |-> FALSE, x |-> 0, y |-> 0, confidence |-> 0]}

Max(a, b) == IF a >= b THEN a ELSE b

\* Lines 343-345: int(mp_lm.x * w), int(mp_lm.y * h), visibility.
MpPixel(lm, shape) ==
    [x |-> (lm.x.n * shape[2]) \div lm.x.d,
     y |-> (lm.y.n * shape[1]) \div lm.y.d,
     conf |-> lm.visibility]

\* Lines 348-350.
TfPixel(kp) == [x |-> kp.x, y |-> kp.y, conf |-> kp.confidence]

CombineFirstOnZero(a, b) ==
    LET total_conf == a.conf + b.conf
    IN  IF total_conf > 0
        THEN [x |-> Frac(a.x * a.conf + b.x * b.conf, total_conf),
              y |-> Frac(a.y * a.conf + b.y * b.conf, total_conf),
              confidence |-> Max(a.conf, b.conf)]
        ELSE [x |-> Frac(a.x, 1), y |-> Frac(a.y, 1), confidence |-> 0]

CombineFirstConfidence(a, b) ==
    LET total_conf == a.conf + b.conf
    IN  IF total_conf > 0
        THEN [x |-> Frac(a.x * a.conf + b.x * b.conf, total_conf),
              y |-> Frac(a.y * a.conf + b.y * b.conf, total_conf),
              confidence |-> a.conf]
        ELSE [x |-> Frac(a.x + b.x, 2), y |-> Frac(a.y + b.y, 2),
              confidence |-> 0]

\* Lines 352-361: the confidence-weighted average, or the midpoint when the
\* confidences sum to zero.
Combine(a, b) ==
    LET total_conf == a.conf + b.conf
    IN  IF total_conf > 0
        THEN [x |-> Frac(a.x * a.conf + b.x * b.conf, total_conf),
              y |-> Frac(a.y * a.conf + b.y * b.conf, total_conf),
              confidence |-> Max(a.conf, b.conf)]
        ELSE [x |-> Frac(a.x + b.x, 2), y |-> Frac(a.y + b.y, 2),
              confidence |-> 0]

\* Lines 338-370: a landmark is appended when both sources hold it.
CombineLandmark(lm, kp, shape) ==
    IF lm.present /\ kp.present
    THEN LET e == Combine(MpPixel(lm, shape), TfPixel(kp))
         IN  [called |-> TRUE, appended |-> TRUE, x |-> e.x, y |-> e.y,
              confidence |-> e.confidence]
    ELSE [NoLandmark EXCEPT !.called = TRUE]

InitFusion ==
    /\ SessionsIdle
    /\ PipelineIdle
    /\ MeasureWsIdle
    /\ Serving
    /\ RenderIdle
    /\ MeasuringIdle
    /\ AnalysisIdle
    /\ fu_mp \in MpLandmarks
    /\ fu_tf \in TfKeypoints
    /\ fu_shape \in ImageShapes
    /\ fu_out = NoLandmark

\* _combine_pose_estimates reaches the landmark.
FusionCall ==
    /\ ~fu_out.called
    /\ fu_out' = CombineLandmark(fu_mp, fu_tf, fu_shape)
    /\ UNCHANGED <<fu_mp, fu_tf, fu_shape>>
    /\ UNCHANGED not_fvars

\* The next landmark pair.
FusionNextLandmark ==
    /\ fu_out.called
    /\ fu_mp' \in MpLandmarks
    /\ fu_tf' \in TfKeypoints
    /\ fu_out' = NoLandmark
    /\ UNCHANGED fu_shape
    /\ UNCHANGED not_fvars

NextFusion == FusionCall \/ FusionNextLandmark

SpecFusion == InitFusion /\ [][NextFusion]_vars

\* C14: for every pair of source keypoints in pixels, combining them in
\* either order gives the same x and y, and the landmark that
\* _combine_pose_estimates appended has the x and y of the swapped
\* combination; this covers confidences with a positive sum and both zero.
C14_FusionSymmetric ==
    LET a == MpPixel(fu_mp, fu_shape)
        b == TfPixel(fu_tf)
    IN  /\ Combine(a, b).x = Combine(b, a).x
        /\ Combine(a, b).y = Combine(b, a).y
        /\ fu_out.appended =>
              /\ fu_out.x = Combine(b, a).x
              /\ fu_out.y = Combine(b, a).y

\* C14 witness: a landmark was fused from two keypoints at different pixels
\* whose confidences are both zero, and the result is the midpoint, which is
\* neither source's position.
C14_Witness ==
    LET a == MpPixel(fu_mp, fu_shape)
        b == TfPixel(fu_tf)
    IN  /\ fu_out.appended
        /\ a.conf = 0 /\ b.conf = 0
        /\ a.x # b.x /\ a.y # b.y
        /\ fu_out.x = Frac(a.x + b.x, 2)
        /\ fu_out.x # Frac(a.x, 1) /\ fu_out.x # Frac(b.x, 1)

\* C15: the confidence of every appended landmark is the larger of the two
\* source confidences, also when both are zero.
C15_FusedConfidenceIsMax ==
    fu_out.appended =>
        /\ fu_out.confidence >= fu_mp.visibility
        /\ fu_out.confidence >= fu_tf.confidence
        /\ fu_out.confidence \in {fu_mp.visibility, fu_tf.confidence}

\* C15 witness: the MediaPipe visibility is below the TensorFlow confidence
\* and the appended landmark carries the TensorFlow confidence.
C15_Witness ==
    /\ fu_out.appended
    /\ fu_mp.visibility > 0
    /\ fu_mp.visibility < fu_tf.confidence
    /\ fu_out.confidence = fu_tf.confidence

----------------------------------------------------------------------------
\* Garment rendering: _apply_dress_augmentation and the four _apply_* methods.
\* A polygon is kept as its part name and fill colour; an opacity is kept in
\* hundredths (70 is 0.7).  The detector returns all 33 landmarks, so inside
\* the pipeline pose_points always holds every anchor; the methods themselves
\* take any dict, and pose_points.get gives None for a missing id.

\* dress_config['type'] as a client may send it; "absent" is a missing key.
RenderTypes ==
    {"absent", "evening_gown", "wedding_dress", "cocktail_dress",
     "formal_gown", "casual_dress", "prom_dress", "tuxedo"}

\* The landmarks the four methods read: nose, shoulders, hips, knees, ankles.
AllPoints == {0, 11, 12, 23, 24, 25, 26, 27, 28}

PointSets ==
    {AllPoints, AllPoints \ {0}, AllPoints \ {24}, AllPoints \ {25},
     AllPoints \ {27, 28}}

\* The landmarks whose visibility is 0 (occluded or outside the frame): none,
\* the knees, or the shoulders.  The detector still returns coordinates for
\* them.
LowSets == {{}, {25, 26}, {11, 12}}

\* pose_points (lines 179-181): every landmark of the list gets an entry, and
\* landmark.visibility is not read.
PosePoints(landmarks, low) == landmarks

\* dress_config dicts as parsed from the client's JSON: no key is validated.
RenderConfigs ==
    [type : RenderTypes,
     include_veil : {"absent", "true", "false"},
     opacity : {Absent(0), Present(0), Present(10), Present(70),
                Present(100), Present(150)},
     bodice_color : {Absent(<<>>), Present(<<75, 0, 130>>),
                     Present(<<300, 0, 0>>)},
     skirt_color : {Absent(<<>>), Present(<<123, 104, 238>>)},
     dress_color : {Absent(<<>>), Present(<<0, 0, 256>>)}]

\* all([left_shoulder, right_shoulder, left_hip, right_hip])
Anchors(points) == {11, 12, 23, 24} \subseteq points

Polygon(part, color) == [part |-> part, color |-> color]

Rendered(drawn, alpha) ==
    [called |-> TRUE, drawn |-> drawn, blended |-> TRUE, alpha |-> alpha]

\* Lines 197-236.
ApplyEveningGown(points, config) ==
    LET bodice == Polygon("bodice", Get(config.bodice_color, <<255, 182, 193>>))
        skirt == Polygon("skirt", Get(config.skirt_color, <<176, 196, 222>>))
        drawn == IF ~Anchors(points) THEN {}
                 ELSE IF {25, 26} \subseteq points THEN {bodice, skirt}
                 ELSE {bodice}
    IN  Rendered(drawn, Get(config.opacity, 70))

ApplyWeddingDressVeilAlways(points, config) ==
    LET drawn == IF ~Anchors(points) THEN {}
                 ELSE {Polygon("bodice", <<255, 255, 255>>),
                       Polygon("skirt", <<250, 250, 250>>)}
                      \cup (IF 0 \in points
                            THEN {Polygon("veil", <<255, 255, 255, 100>>)}
                            ELSE {})
    IN  Rendered(drawn, Get(config.opacity, 80))

\* Lines 238-284; line 273 is `config.get('include_veil', True) and nose`.
ApplyWeddingDress(points, config) ==
    LET include_veil == IF config.include_veil = "absent" THEN TRUE
                        ELSE config.include_veil = "true"
        drawn == IF ~Anchors(points) THEN {}
                 ELSE {Polygon("bodice", <<255, 255, 255>>),
                       Polygon("skirt", <<250, 250, 250>>)}
                      \cup (IF include_veil /\ 0 \in points
                            THEN {Polygon("veil", <<255, 255, 255, 100>>)}
                            ELSE {})
    IN  Rendered(drawn, Get(config.opacity, 80))

\* Lines 286-308.
ApplyCocktailDress(points, config) ==
    LET drawn == IF ~Anchors(points) THEN {}
                 ELSE {Polygon("dress", Get(config.dress_color, <<0, 0, 0>>))}
    IN  Rendered(drawn, Get(config.opacity, 75))

\* Lines 310-344.
ApplyFormalGown(points, config) ==
    LET bodice == Polygon("bodice", Get(config.bodice_color, <<128, 0, 128>>))
        skirt == Polygon("skirt", Get(config.skirt_color, <<138, 43, 226>>))
        drawn == IF ~Anchors(points) THEN {}
                 ELSE IF {27, 28} \subseteq points THEN {bodice, skirt}
                 ELSE {bodice}
    IN  Rendered(drawn, Get(config.opacity, 70))

\* Lines 171-195: dispatch on dress_config.get('type', 'evening_gown'); any
\* other type returns the copy of the frame.
DressType(config) ==
    IF config.type = "absent" THEN "evening_gown" ELSE config.type

ApplyDressAugmentationFallback(points, config) ==
    CASE DressType(config) = "wedding_dress" -> ApplyWeddingDress(points, config)
      [] DressType(config) = "cocktail_dress" ->
            ApplyCocktailDress(points, config)
      [] DressType(config) = "formal_gown" -> ApplyFormalGown(points, config)
      [] OTHER -> ApplyEveningGown(points, config)

ApplyDressAugmentation(points, config) ==
    CASE DressType(config) = "evening_gown" -> ApplyEveningGown(points, config)
      [] DressType(config) = "wedding_dress" -> ApplyWeddingDress(points, config)
      [] DressType(config) = "cocktail_dress" ->
            ApplyCocktailDress(points, config)
      [] DressType(config) = "formal_gown" -> ApplyFormalGown(points, config)
      [] OTHER -> [NoRender EXCEPT !.called = TRUE]

InitRender ==
    /\ SessionsIdle
    /\ PipelineIdle
    /\ MeasureWsIdle
    /\ Serving
    /\ FusionIdle
    /\ MeasuringIdle
    /\ AnalysisIdle
    /\ rd_points \in PointSets
    /\ rd_config \in RenderConfigs
    /\ rd_out = NoRender
    /\ rd_low \in {low \in LowSets : low \subseteq rd_points}

\* await self._apply_dress_augmentation(frame_resized, pose_results, dress_config)
RenderCall ==
    /\ ~rd_out.called
    /\ rd_out' = ApplyDressAugmentation(PosePoints(rd_points, rd_low), rd_config)
    /\ UNCHANGED <<rd_points, rd_config, rd_low>>
    /\ UNCHANGED not_rvars

\* The next frame of the session, with the same dress_config.
RenderNextFrame ==
    /\ rd_out.called
    /\ rd_points' \in PointSets
    /\ rd_low' \in {low \in LowSets : low \subseteq rd_points'}
    /\ rd_out' = NoRender
    /\ UNCHANGED rd_config
    /\ UNCHANGED not_rvars

NextRender == RenderCall \/ RenderNextFrame

SpecRender == InitRender /\ [][NextRender]_vars

\* A veil polygon is among the polygons drawn.
VeilDrawn == \E d \in rd_out.drawn : d.part = "veil"

C19_OpacityAndRgbInRange ==
    rd_out.called =>
        /\ rd_out.blended => rd_out.alpha \in 10 .. 100
        /\ \A d \in rd_out.drawn :
              \A i \in 1 .. Len(d.color) : d.color[i] \in 0 .. 255

\* The landmarks the renderer can rely on: present and visible.
Usable == rd_points \ rd_low

\* The anchors the guards of a garment's polygon ask for (lines 209, 222,
\* 249, 273, 295, 321, 333).
RequiredAnchors(type, part) ==
    {11, 12, 23, 24}
       \cup (IF type = "evening_gown" /\ part = "skirt" THEN {25, 26} ELSE {})
       \cup (IF type = "formal_gown" /\ part = "skirt" THEN {27, 28} ELSE {})
       \cup (IF part = "veil" THEN {0} ELSE {})

PartsDrawn == {d.part : d \in rd_out.drawn}

\* C22: in every render, each polygon drawn has all its required anchors
\* present and visible (a polygon with an absent or low-confidence anchor is
\* skipped); a render with no usable shoulder or hip draws nothing; and with
\* usable shoulders and hips a missing or low-confidence knee pair (evening
\* gown) or ankle pair (formal gown) suppresses the skirt and only the skirt.
C22_UnusableAnchorsSkipped ==
    rd_out.called =>
        /\ \A d \in rd_out.drawn :
              RequiredAnchors(DressType(rd_config), d.part) \subseteq Usable
        /\ {11, 12, 23, 24} \cap Usable = {} => rd_out.drawn = {}
        /\ (DressType(rd_config) = "evening_gown"
              /\ {11, 12, 23, 24} \subseteq Usable
              /\ ~({25, 26} \subseteq Usable)) => PartsDrawn = {"bodice"}
        /\ (DressType(rd_config) = "formal_gown"
              /\ {11, 12, 23, 24} \subseteq Usable
              /\ ~({27, 28} \subseteq Usable)) => PartsDrawn = {"bodice"}

----------------------------------------------------------------------------
\* Measurement derivation: ARDressAugmentationService._calculate_measurements.
\* Arithmetic is exact: a coordinate is a rational, and a Euclidean length is
\* kept as the rational under its square root, so two lengths are equal
\* exactly when their radicands are.  A landmark list is its denominator den
\* and, per index, the numerators of the normalised x and y.

\* |a - b| for rationals.
FracAbsDiff(a, b) ==
    LET p == a.n * b.d
        q == b.n * a.d
    IN  Frac(IF p >= q THEN p - q ELSE q - p, a.d * b.d)

FracAdd(a, b) == Frac(a.n * b.d + b.n * a.d, a.d * b.d)

FracMul(a, b) == Frac(a.n * b.n, a.d * b.d)

FracDiv(a, b) == Frac(a.n * b.d, a.d * b.n)

\* Lines 352-354: points[i] = (landmark.x * w, landmark.y * h).
PixelPoint(lm, shape, i) ==
    [x |-> Frac(lm.at[i][1] * shape[2], lm.den),
     y |-> Frac(lm.at[i][2] * shape[1], lm.den)]

NormUnsquared(lm, shape, i, j) ==
    LET a == PixelPoint(lm, shape, i)
        b == PixelPoint(lm, shape, j)
    IN  FracAdd(FracAbsDiff(a.x, b.x), FracAbsDiff(a.y, b.y))

\* The radicand of np.linalg.norm(points[i] - points[j]).
NormSquared(lm, shape, i, j) ==
    LET a == PixelPoint(lm, shape, i)
        b == PixelPoint(lm, shape, j)
        dx == FracAbsDiff(a.x, b.x)
        dy == FracAbsDiff(a.y, b.y)
    IN  FracAdd(FracMul(dx, dx), FracMul(dy, dy))

ScaledIgnoringScale(lm, shape, scale, i, j) == NormSquared(lm, shape, i, j)

\* norm(points[i] - points[j]) / scale_factor, as the radicand of the result.
Scaled(lm, shape, scale, i, j) ==
    FracDiv(NormSquared(lm, shape, i, j), FracMul(scale, scale))

\* Lines 346-381.  A measurement is the sequence of the lengths it sums.
CalculateMeasurements(lm, shape, scale) ==
    LET has(i) == i \in DOMAIN lm.at
        keys == (IF has(11) /\ has(12) THEN {"shoulder_width"} ELSE {})
                  \cup (IF has(11) /\ has(23) THEN {"torso_length"} ELSE {})
                  \cup (IF has(23) /\ has(24) THEN {"hip_width"} ELSE {})
                  \cup (IF has(11) /\ has(13) /\ has(15)
                        THEN {"arm_length"} ELSE {})
    IN  [called |-> TRUE,
         measurements |->
           [k \in keys |->
              CASE k = "shoulder_width" -> <<Scaled(lm, shape, scale, 11, 12)>>
                [] k = "torso_length" -> <<Scaled(lm, shape, scale, 11, 23)>>
                [] k = "hip_width" -> <<Scaled(lm, shape, scale, 23, 24)>>
                [] OTHER -> <<Scaled(lm, shape, scale, 11, 13),
                              Scaled(lm, shape, scale, 13, 15)>>]]

\* measurements.py lines 107-113: the pixel widths BodyMeasurementProcessor
\* derives before it converts them to inches.
BodyWidths(lm, shape) ==
    [shoulder_width |-> FracAbsDiff(PixelPoint(lm, shape, 11).x,
                                    PixelPoint(lm, shape, 12).x),
     hip_width |-> FracAbsDiff(PixelPoint(lm, shape, 23).x,
                               PixelPoint(lm, shape, 24).x)]

\* A list of landmarks: enumerate() numbers them from 0, so a list that holds
\* an index holds every smaller one.
Landmarks(den, s11, s12, s13, s15, s23, s24) ==
    [den |-> den,
     at |-> [i \in {11, 12, 13, 15, 23, 24} |->
               CASE i = 11 -> s11 [] i = 12 -> s12 [] i = 13 -> s13
                 [] i = 15 -> s15 [] i = 23 -> s23 [] OTHER -> s24]]

Truncated(lm, ids) == [lm EXCEPT !.at = [i \in ids |-> lm.at[i]]]

\* Shoulders at (100,50), (200,50) and hips at (110,300), (190,300) in a
\* 640x480 frame.
SyntheticPose ==
    Landmarks(1920, <<300, 200>>, <<600, 200>>, <<300, 600>>, <<300, 1000>>,
              <<330, 1200>>, <<570, 1200>>)

SmallPoses ==
    { Landmarks(4, <<1, 1>>, s12, <<1, 2>>, s15, <<1, 3>>, s24) :
        s12 \in {<<3, 1>>, <<2, 0>>}, s15 \in {<<1, 3>>, <<0, 4>>},
        s24 \in {<<3, 3>>, <<4, 3>>} }

LandmarkLists ==
    {SyntheticPose} \cup SmallPoses
      \cup { Truncated(lm, {11, 12, 13, 15}) : lm \in SmallPoses }
      \cup { Truncated(lm, {11, 12}) : lm \in SmallPoses }

\* frame_resized.shape[:2] as <<h, w>>, each with its 2x upscale.
FrameShapes == {<<480, 640>>, <<960, 1280>>, <<3, 4>>, <<6, 8>>}

Doubled(shape) == <<2 * shape[1], 2 * shape[2]>>

\* scale_factor: 1.0, 2.0, and 0.5 as for a 1280-wide frame resized to 640.
ScaleFactors == {Frac(1, 1), Frac(2, 1), Frac(1, 2)}

InitMeasuring ==
    /\ SessionsIdle
    /\ PipelineIdle
    /\ MeasureWsIdle
    /\ Serving
    /\ FusionIdle
    /\ RenderIdle
    /\ AnalysisIdle
    /\ cm_landmarks \in LandmarkLists
    /\ cm_shape \in FrameShapes
    /\ cm_scale \in ScaleFactors
    /\ cm_out = NoMeasurements

\* await self._calculate_measurements(pose_results, frame_resized.shape, scale_factor)
MeasuringCall ==
    /\ ~cm_out.called
    /\ cm_out' = CalculateMeasurements(cm_landmarks, cm_shape, cm_scale)
    /\ UNCHANGED <<cm_landmarks, cm_shape, cm_scale>>
    /\ UNCHANGED not_cvars

\* The same pose measured on another frame size and scale factor.
MeasuringRescale ==
    /\ cm_out.called
    /\ cm_shape' \in FrameShapes
    /\ cm_scale' \in ScaleFactors
    /\ cm_out' = NoMeasurements
    /\ UNCHANGED cm_landmarks
    /\ UNCHANGED not_cvars

NextMeasuring == MeasuringCall \/ MeasuringRescale

SpecMeasuring == InitMeasuring /\ [][NextMeasuring]_vars

\* C17: the measurements of a pose at scale_factor 1 and those of the same
\* pose with every pixel coordinate doubled at scale_factor 2 are the same
\* dict; the dict a call with scale_factor 2 returned is the one the pose at
\* half the pixel coordinates gives with scale_factor 1; and every reported
\* length is the pixel length divided by scale_factor.
C17_ScaleInvariant ==
    /\ CalculateMeasurements(cm_landmarks, cm_shape, Frac(1, 1))
         = CalculateMeasurements(cm_landmarks, Doubled(cm_shape), Frac(2, 1))
    /\ \A half \in FrameShapes :
          (cm_out.called /\ cm_scale = Frac(2, 1) /\ cm_shape = Doubled(half))
             => cm_out = CalculateMeasurements(cm_landmarks, half, Frac(1, 1))
    /\ (cm_out.called /\ "hip_width" \in DOMAIN cm_out.measurements) =>
          FracMul(cm_out.measurements["hip_width"][1],
                  FracMul(cm_scale, cm_scale))
             = NormSquared(cm_landmarks, cm_shape, 23, 24)

\* C17 witness: a pose was measured on the 2x frame with scale_factor 2 and
\* all four measurements were reported, none of them zero.
C17_Witness ==
    /\ cm_out.called
    /\ cm_scale = Frac(2, 1)
    /\ cm_shape = <<6, 8>>
    /\ DOMAIN cm_out.measurements
         = {"shoulder_width", "torso_length", "hip_width", "arm_length"}
    /\ \A k \in DOMAIN cm_out.measurements :
          cm_out.measurements[k][1].n > 0
    /\ cm_out = CalculateMeasurements(cm_landmarks, <<3, 4>>, Frac(1, 1))

\* The pixel positions of shoulders and hips are those of the scenario.
SyntheticPixels ==
    /\ {11, 12, 23, 24} \subseteq DOMAIN cm_landmarks.at
    /\ PixelPoint(cm_landmarks, cm_shape, 11) = [x |-> Frac(100, 1), y |-> Frac(50, 1)]
    /\ PixelPoint(cm_landmarks, cm_shape, 12) = [x |-> Frac(200, 1), y |-> Frac(50, 1)]
    /\ PixelPoint(cm_landmarks, cm_shape, 23) = [x |-> Frac(110, 1), y |-> Frac(300, 1)]
    /\ PixelPoint(cm_landmarks, cm_shape, 24) = [x |-> Frac(190, 1), y |-> Frac(300, 1)]

\* C18: for shoulders at (100,50) and (200,50) and hips at (110,300) and
\* (190,300) with scale_factor 1, shoulder_width is exactly 100 and hip_width
\* exactly 80 (their squares are 10000 and 6400), and the pixel widths of
\* BodyMeasurementProcessor are 100 and 80 as well.
C18_SyntheticPoseExact ==
    (cm_out.called /\ SyntheticPixels /\ cm_scale = Frac(1, 1)) =>
        /\ cm_out.measurements["shoulder_width"] = <<Frac(100 * 100, 1)>>
        /\ cm_out.measurements["hip_width"] = <<Frac(80 * 80, 1)>>
        /\ BodyWidths(cm_landmarks, cm_shape)
             = [shoulder_width |-> Frac(100, 1), hip_width |-> Frac(80, 1)]

\* C18 witness: the scenario's pose was measured in the 640x480 frame with
\* scale_factor 1.
C18_Witness ==
    /\ cm_out.called
    /\ SyntheticPixels
    /\ cm_shape = <<480, 640>>
    /\ cm_scale = Frac(1, 1)
    /\ cm_out.measurements["shoulder_width"] = <<Frac(10000, 1)>>

----------------------------------------------------------------------------
\* The order of the pipeline's stages.

\* The place of a stage in Decoded, Detected, Measured, Rendered, Encoded.
StageRank(stage) ==
    CASE stage = "decode" -> 1
      [] stage = "detect" -> 2
      [] stage = "measure" -> 3
      [] stage = "render" -> 4
      [] OTHER -> 5

\* The stages of the run without the encoding of the undrawn frame that a
\* failure result carries.
MainStages == SelectSeq(p_stages, LAMBDA st : st # "encode_original")

\* C20: the stages of every call run in the order Decoded, Detected,
\* Measured, Rendered, Encoded; a call that ran all five returns
\* success=true, and a call in which a stage failed ran no later stage and
\* returns a result with success=false.
C20_StageOrder ==
    last_result.called =>
        /\ \A i, j \in 1 .. Len(MainStages) :
              i < j => StageRank(MainStages[i]) < StageRank(MainStages[j])
        /\ ~last_result.raised
        /\ last_result.success <=>
              /\ Len(MainStages) = 5
              /\ "encode_original" \notin {p_stages[i] : i \in 1 .. Len(p_stages)}

----------------------------------------------------------------------------
\* The resolution policy of process_frame_for_ar (lines 101-153), seen through
\* the shapes of the frames: the decoded frame, the frame handed to pose
\* detection and rendering, and the frame encoded into the result.
\*
\* scale and original_height * scale are IEEE 754 doubles.  A significand is
\* kept as a sequence of 16-bit limbs, the most significant first, and the
\* operations round to 53 bits, to nearest with ties to even.

\* Bits of a double's significand.
Precision == 53

\* max_width
MaxWidth == 640

\* Bits of a limb, and the number of limbs of a quotient.
LimbBits == 16

QuotientLimbs == 4

Pow2(k) ==
    <<1, 2, 4, 8, 16, 32, 64, 128, 256, 512, 1024, 2048, 4096, 8192, 16384,
      32768, 65536>>[k + 1]

\* The number of bits of a limb's value.
BitLength(n) ==
    CHOOSE k \in 0 .. LimbBits :
        Pow2(k) > n /\ (k = 0 \/ Pow2(k - 1) <= n)

\* k quotient limbs of r / w after the binary point (r < w), and the remainder.
RECURSIVE LongDiv(_, _, _)
LongDiv(r, w, k) ==
    IF k = 0 THEN [limbs |-> <<>>, rem |-> r]
    ELSE LET t == r * Pow2(LimbBits)
             rest == LongDiv(t % w, w, k - 1)
         IN  [limbs |-> <<t \div w>> \o rest.limbs, rem |-> rest.rem]

\* limbs shifted right by d < 16 bits.
ShiftRight(limbs, d) ==
    [i \in 1 .. Len(limbs) |->
        (IF i = 1 THEN 0 ELSE limbs[i - 1] % Pow2(d)) * Pow2(LimbBits - d)
           + limbs[i] \div Pow2(d)]

\* limbs + 1
AddOne(limbs) ==
    LET room == {i \in 1 .. Len(limbs) : limbs[i] < Pow2(LimbBits) - 1}
        p == CHOOSE i \in room : \A j \in room : j <= i
    IN  IF room = {} THEN <<1>> \o [i \in 1 .. Len(limbs) |-> 0]
        ELSE [i \in 1 .. Len(limbs) |->
                 IF i < p THEN limbs[i] ELSE IF i = p THEN limbs[i] + 1 ELSE 0]

\* limbs * h, from the least significant limb up to limb i, with a carry.
RECURSIVE MulSmall(_, _, _, _)
MulSmall(limbs, h, i, carry) ==
    IF i = 0 THEN <<carry>>
    ELSE LET t == limbs[i] * h + carry
         IN  MulSmall(limbs, h, i - 1, t \div Pow2(LimbBits))
                \o <<t % Pow2(LimbBits)>>

\* The number of bits of the value of limbs.
BitLen(limbs) ==
    LET nonzero == {i \in 1 .. Len(limbs) : limbs[i] # 0}
        j == CHOOSE i \in nonzero : \A k \in nonzero : i <= k
    IN  IF nonzero = {} THEN 0
        ELSE (Len(limbs) - j) * LimbBits + BitLength(limbs[j])

\* Rounding to Precision bits, to nearest with ties to even: the significand
\* kept and the number of bits dropped (fewer than 16).
RoundNearestEven(limbs, sticky) ==
    LET d == BitLen(limbs) - Precision
        low == limbs[Len(limbs)]
        guard == (low \div Pow2(d - 1)) % 2 = 1
        rest == sticky \/ low % Pow2(d - 1) # 0
        kept == ShiftRight(limbs, d)
        up == guard /\ (rest \/ kept[Len(kept)] % 2 = 1)
    IN  IF BitLen(limbs) <= Precision THEN [m |-> limbs, dropped |-> 0]
        ELSE [m |-> IF up THEN AddOne(kept) ELSE kept, dropped |-> d]

\* scale = max_width / original_width (line 105), for original_width >
\* max_width: the double m * 2^-f.
Scale(w) ==
    LET q == LongDiv(MaxWidth, w, QuotientLimbs)
        r == RoundNearestEven(q.limbs, q.rem # 0)
    IN  [m |-> r.m, f |-> QuotientLimbs * LimbBits - r.dropped]

\* scale_factor != 1.0 (line 137) is false only for the double 1.0.
IsOne(scale) == BitLen(scale.m) = scale.f + 1

NewHeightExact(h, w) == (h * MaxWidth) \div w

\* new_height = int(original_height * scale) (line 107): the product rounded
\* to a double, then truncated.
NewHeight(h, w) ==
    LET scale == Scale(w)
        product == MulSmall(scale.m, h, Len(scale.m), 0)
        r == RoundNearestEven(product, FALSE)
        fraction == scale.f - r.dropped
        whole == fraction \div LimbBits
        integer == ShiftRight(SubSeq(r.m, 1, Len(r.m) - whole),
                              fraction % LimbBits)
    IN  IF whole >= Len(r.m) THEN 0 ELSE integer[Len(integer)]

\* frame.shape[:2] of the decoded frames, as <<height, width>>: widths below,
\* at and above max_width, among them 716 x 537, whose exact downscaled
\* height is the integer 480.  Every downscaled height is at least 1.
FrameSizes ==
    {<<h, w>> : h \in {240, 480, 537, 1080},
                w \in {320, 640, 641, 716, 1280, 1920}}

ShapesResultResized(shape, pose, late) ==
    LET h == shape[1]
        w == shape[2]
        resized == IF w > MaxWidth THEN <<NewHeight(h, w), MaxWidth>>
                   ELSE shape
        failure == [NoShapes EXCEPT !.called = TRUE, !.detected = TRUE,
                                    !.detect_shape = resized,
                                    !.scale_one = (w <= MaxWidth),
                                    !.frame_shape = resized]
    IN  IF pose = "raise" \/ (pose = "pose" /\ late = "raise")
        THEN [failure EXCEPT !.message = "Processing error"]
        ELSE IF pose = "nopose"
        THEN [failure EXCEPT !.message = "No pose detected"]
        ELSE [failure EXCEPT !.success = TRUE, !.frame_shape = shape]

\* process_frame_for_ar on a frame that decodes: the shape detection and
\* rendering work on, and the result with the shape of its encoded frame.
\* `frame` stays the decoded frame throughout; the no-pose result and the
\* except clause encode it (lines 125, 162).
ShapesResult(shape, pose, late) ==
    LET h == shape[1]
        w == shape[2]
        scale_one == IF w > MaxWidth THEN IsOne(Scale(w)) ELSE TRUE
        resized == IF w > MaxWidth THEN <<NewHeight(h, w), MaxWidth>>
                   ELSE shape
        augmented == IF ~scale_one THEN <<h, w>> ELSE resized
        ran == [NoShapes EXCEPT !.called = TRUE, !.detected = TRUE,
                                !.detect_shape = resized,
                                !.scale_one = scale_one]
    IN  IF pose = "raise" \/ (pose = "pose" /\ late = "raise")
        THEN [ran EXCEPT !.message = "Processing error",
                         !.frame_shape = shape]
        ELSE IF pose = "nopose"
        THEN [ran EXCEPT !.message = "No pose detected",
                         !.frame_shape = shape]
        ELSE [ran EXCEPT !.success = TRUE, !.frame_shape = augmented]

InitResolution ==
    /\ SessionsIdle
    /\ PipelineIdle
    /\ MeasureWsIdle
    /\ Serving
    /\ FusionIdle
    /\ RenderIdle
    /\ MeasuringIdle
    /\ PhotoIdle
    /\ ConfidenceIdle
    /\ EnhanceIdle
    /\ rs_shape \in FrameSizes
    /\ rs_pose \in {"pose", "nopose", "raise"}
    /\ rs_late \in {"ok", "raise"}
    /\ rs_pose # "pose" => rs_late = "ok"
    /\ rs_out = NoShapes

\* await ar_service.process_frame_for_ar(frame_bytes, dress_config)
ResolutionCall ==
    /\ ~rs_out.called
    /\ rs_out' = ShapesResult(rs_shape, rs_pose, rs_late)
    /\ UNCHANGED <<rs_shape, rs_pose, rs_late>>
    /\ UNCHANGED not_zvars

\* The next frame arrives, of the same size (a camera stream) or another.
ResolutionNextFrame ==
    /\ rs_out.called
    /\ rs_shape' \in FrameSizes
    /\ rs_pose' \in {"pose", "nopose", "raise"}
    /\ rs_late' \in {"ok", "raise"}
    /\ rs_pose' # "pose" => rs_late' = "ok"
    /\ rs_out' = NoShapes
    /\ UNCHANGED not_zvars

NextResolution == ResolutionCall \/ ResolutionNextFrame

SpecResolution == InitResolution /\ [][NextResolution]_vars

\* C21: a frame wider than 640 pixels reaches pose detection and rendering
\* downscaled to width 640 and height int(original_height * 640 /
\* original_width); a frame of width at most 640 reaches them unscaled, with
\* scale_factor 1.0; and the encoded frame of every successful result has the
\* width and height of the input frame.
C21_ResolutionPolicy ==
    rs_out.called =>
        /\ (rs_out.detected /\ rs_shape[2] > MaxWidth) =>
              rs_out.detect_shape =
                  <<NewHeightExact(rs_shape[1], rs_shape[2]), MaxWidth>>
        /\ (rs_out.detected /\ rs_shape[2] <= MaxWidth) =>
              /\ rs_out.detect_shape = rs_shape
              /\ rs_out.scale_one
        /\ rs_out.success => rs_out.frame_shape = rs_shape

----------------------------------------------------------------------------
\* The single-photo measurement flow: BodyMeasurementProcessor.process_image
\* and its _calculate_measurements (measurements.py:41-140).  Lengths are in
\* pixels, measurements in thousandths of an inch until they are rounded to
\* tenths.  A landmark list is the set of indices it holds (enumerate gives
\* 0 .. n-1, so a short list lacks the high indices), the set of those whose
\* visibility is 0, and the pose it shows.

\* The indices _calculate_measurements reads (lines 108-121).
PhotoRequired == {0, 11, 12, 23, 24, 27, 28}

\* Lists of 33, of 27 and of 12 landmarks, restricted to the indices read.
PhotoLists == {AllPoints, {0, 11, 12, 23, 24, 25, 26}, {0, 11}}

PhotoLandmarks ==
    {lm \in [present : PhotoLists, low : LowSets \cup {{27, 28}},
             wide : BOOLEAN] : lm.low \subseteq lm.present}

\* np.random.normal draws, in thousandths of an inch.
Noise == {0 - 300, 0, 300}

\* landmarks_dict[i]['x'] and ['y'] in pixels for the two poses.
PhotoPixels(wide) ==
    IF wide
    THEN [x11 |-> 300, x12 |-> 500, x23 |-> 320, x24 |-> 480,
          y0 |-> 60, y27 |-> 860, y28 |-> 860]
    ELSE [x11 |-> 100, x12 |-> 200, x23 |-> 110, x24 |-> 190,
          y0 |-> 40, y27 |-> 440, y28 |-> 440]

AbsDiff(a, b) == IF a >= b THEN a - b ELSE b - a

\* round(v, 1) of a positive value given in thousandths, in tenths.
RoundTenths(milli) == (milli + 50) \div 100

\* The except KeyError result (lines 135-140), in tenths of an inch.
DefaultMeasurements ==
    [bust |-> 340, waist |-> 260, hips |-> 360, height |-> 660]

\* Lines 79-140.
PhotoMeasurements(lm, noise) ==
    LET p == PhotoPixels(lm.wide)
        shoulder_width == AbsDiff(p.x11, p.x12)
        hip_width == AbsDiff(p.x23, p.x24)
        \* (shoulder_width + hip_width) / 2 * 0.85 * 0.04
        waist == (shoulder_width + hip_width) * 17
        \* abs((y27 + y28) / 2 - y0) * 0.025, with twice the pixel height
        height == (AbsDiff(p.y27 + p.y28, 2 * p.y0) * 25) \div 2
    IN  IF PhotoRequired \subseteq lm.present
        THEN [bust |-> RoundTenths(shoulder_width * 40 + noise.bust),
              waist |-> RoundTenths(waist + noise.waist),
              hips |-> RoundTenths(hip_width * 40 + noise.hips),
              height |-> RoundTenths(height + noise.height)]
        ELSE DefaultMeasurements

\* Lines 41-77.
ProcessImage(image, lm, noise) ==
    CASE image = "undecodable" ->
            [NoPhotoResult EXCEPT !.called = TRUE,
                                  !.error = "Invalid image data"]
      [] image = "nopose" ->
            [NoPhotoResult EXCEPT !.called = TRUE,
                                  !.error = "No pose detected in image"]
      [] OTHER ->
            [NoPhotoResult EXCEPT !.called = TRUE, !.success = TRUE,
                                  !.measurements = PhotoMeasurements(lm, noise)]

InitPhoto ==
    /\ SessionsIdle
    /\ PipelineIdle
    /\ MeasureWsIdle
    /\ Serving
    /\ FusionIdle
    /\ RenderIdle
    /\ MeasuringIdle
    /\ ResolutionIdle
    /\ ConfidenceIdle
    /\ EnhanceIdle
    /\ ph_image \in {"undecodable", "nopose", "pose"}
    /\ ph_landmarks \in PhotoLandmarks
    /\ ph_noise \in [bust : Noise, waist : Noise, hips : {0}, height : {0}]
    /\ ph_out = NoPhotoResult

\* measurement_processor.process_image(image_data)
PhotoCall ==
    /\ ~ph_out.called
    /\ ph_out' = ProcessImage(ph_image, ph_landmarks, ph_noise)
    /\ UNCHANGED <<ph_image, ph_landmarks, ph_noise>>
    /\ UNCHANGED not_hvars

\* The next photo is uploaded.
PhotoNext ==
    /\ ph_out.called
    /\ ph_image' \in {"undecodable", "nopose", "pose"}
    /\ ph_landmarks' \in PhotoLandmarks
    /\ ph_noise' \in [bust : Noise, waist : Noise, hips : {0}, height : {0}]
    /\ ph_out' = NoPhotoResult
    /\ UNCHANGED not_hvars

NextPhoto == PhotoCall \/ PhotoNext

SpecPhoto == InitPhoto /\ [][NextPhoto]_vars

\* C23: process_image on a photo with a detected pose reports success with
\* measurements, and when a landmark that a measurement needs is missing or
\* has a visibility below the usability threshold, the measurements are the
\* default set {bust 34.0, waist 26.0, hips 36.0, height 66.0}.
C23_DefaultsWhenUnusable ==
    (ph_out.called /\ ph_image = "pose") =>
        /\ ph_out.success
        /\ DOMAIN ph_out.measurements = {"bust", "waist", "hips", "height"}
        /\ ~(PhotoRequired \subseteq ph_landmarks.present \ ph_landmarks.low)
              => ph_out.measurements = DefaultMeasurements

----------------------------------------------------------------------------
\* The pose confidence each producer reports for a pose whose keypoints have
\* the confidences cf_conf (MoveNet) or visibilities cf_conf (MediaPipe); a
\* value k stands for k / ConfSteps, and the reports are exact rationals.

\* Keypoints of a pose (17 for MoveNet, 33 for MediaPipe).
KeypointCount == 4

RECURSIVE SumSeq(_)
SumSeq(q) == IF q = <<>> THEN 0 ELSE q[1] + SumSeq(Tail(q))

\* The mean of the per-keypoint confidences.
MeanConfidence(conf) == Frac(SumSeq(conf), Len(conf) * ConfSteps)

\* _process_movenet_output: total_confidence / len(keypoints)
\* (tensorflow_pose_service.py:151-164).
MoveNetOverallConfidence(conf) == Frac(SumSeq(conf), Len(conf) * ConfSteps)

\* 'pose_confidence': pose_results.pose_landmarks.landmark[0].visibility
\* (ar_augmentation_service.py:150).
FramePoseConfidence(conf) == Frac(conf[1], ConfSteps)

\* "confidence": results.pose_landmarks.landmark[0].visibility
\* (measurements.py:69).
PhotoConfidence(conf) == Frac(conf[1], ConfSteps)

InitConfidence ==
    /\ SessionsIdle
    /\ PipelineIdle
    /\ MeasureWsIdle
    /\ Serving
    /\ FusionIdle
    /\ RenderIdle
    /\ MeasuringIdle
    /\ ResolutionIdle
    /\ PhotoIdle
    /\ EnhanceIdle
    /\ cf_conf \in [1 .. KeypointCount -> Confidences]
    /\ cf_out = NoConfidence

\* The pose is reported by _process_movenet_output, by a successful frame
\* result and by a successful single-photo result.
ConfidenceReport ==
    /\ ~cf_out.called
    /\ cf_out' = [called |-> TRUE,
                  movenet |-> MoveNetOverallConfidence(cf_conf),
                  frame |-> FramePoseConfidence(cf_conf),
                  photo |-> PhotoConfidence(cf_conf)]
    /\ UNCHANGED cf_conf
    /\ UNCHANGED not_kvars

\* The next pose is detected.
ConfidenceNextPose ==
    /\ cf_out.called
    /\ cf_conf' \in [1 .. KeypointCount -> Confidences]
    /\ cf_out' = NoConfidence
    /\ UNCHANGED not_kvars

NextConfidence == ConfidenceReport \/ ConfidenceNextPose

SpecConfidence == InitConfidence /\ [][NextConfidence]_vars

\* C24: the confidence reported for a pose is the mean of its per-keypoint
\* confidences, in PoseEstimation.overall_confidence, in the pose_confidence
\* of a successful frame result and in the confidence of a successful
\* single-photo result.
C24_ConfidenceIsMean ==
    cf_out.called =>
        /\ cf_out.movenet = MeanConfidence(cf_conf)
        /\ cf_out.frame = MeanConfidence(cf_conf)
        /\ cf_out.photo = MeanConfidence(cf_conf)

----------------------------------------------------------------------------
\* The enhancement path: TensorFlowPoseEstimator.enhance_pose_with_tensorflow
\* (tensorflow_pose_service.py:269-307).  An input names the state of the
\* estimator after __init__ and what each step of the path does:
\*   estimator : "no_tensorflow" (the import failed), "load_failed"
\*               (hub.load raised, models_loaded is False), "loaded"
\*   infer     : preprocessing, inference and _process_movenet_output
\*   segment   : segment_person
\*   landmarks : mediapipe_pose.pose_landmarks is not empty
\*   combine   : _combine_pose_estimates
\* and the frame the primary pipeline is given at the same time.

EnhanceFrames ==
    { f \in FrameInputs :
        /\ f.decode = "image" /\ f.measure = "ok" /\ f.encode = "ok"
        /\ f.detect \in {"pose", "nopose"} }

EnhanceInputs ==
    [estimator : {"no_tensorflow", "load_failed", "loaded"},
     infer : {"ok", "raise"}, segment : {"ok", "raise"},
     landmarks : BOOLEAN, combine : {"ok", "raise"},
     frame : EnhanceFrames]

\* estimate_pose_movenet raises (lines 89-90, 105-107).
EstimateRaises(in) == in.estimator # "loaded" \/ in.infer = "raise"

\* The fusion step is reached and raises.
FusionFails(in) ==
    /\ ~EstimateRaises(in) /\ in.segment = "ok"
    /\ in.landmarks /\ in.combine = "raise"

\* process_frame_for_ar while the estimator is in the given state: lines
\* 77-164 read neither tensorflow_available nor tf_pose_estimator.
ProcessFrameWithEstimator(estimator, f, cfg) == ProcessFrame(f, cfg)

EnhancePoseUnguarded(in) ==
    IF EstimateRaises(in) \/ in.segment = "raise" \/ FusionFails(in)
    THEN [NoEnhancement EXCEPT !.called = TRUE, !.raised = TRUE]
    ELSE [NoEnhancement EXCEPT !.called = TRUE, !.mediapipe_pose = TRUE,
                               !.tensorflow_pose = TRUE,
                               !.person_segmentation = TRUE,
                               !.confidence_comparison = in.landmarks,
                               !.enhanced_landmarks = in.landmarks]

\* Lines 269-307: each key is assigned as soon as its step has succeeded, and
\* the except clause returns the dict as it stands.
EnhancePose(in) ==
    LET initial == [NoEnhancement EXCEPT !.called = TRUE,
                                         !.mediapipe_pose = TRUE]
        posed == [initial EXCEPT !.tensorflow_pose = TRUE]
        segmented == [posed EXCEPT !.person_segmentation = TRUE]
        compared == [segmented EXCEPT !.confidence_comparison = TRUE]
    IN  IF EstimateRaises(in) THEN initial
        ELSE IF in.segment = "raise" THEN posed
        ELSE IF ~in.landmarks THEN segmented
        ELSE IF in.combine = "raise" THEN compared
        ELSE [compared EXCEPT !.enhanced_landmarks = TRUE]

InitEnhance ==
    /\ SessionsIdle
    /\ PipelineIdle
    /\ MeasureWsIdle
    /\ Serving
    /\ FusionIdle
    /\ RenderIdle
    /\ MeasuringIdle
    /\ ResolutionIdle
    /\ PhotoIdle
    /\ ConfidenceIdle
    /\ en_in \in EnhanceInputs
    /\ en_out = NoEnhancement

\* await tf_pose_estimator.enhance_pose_with_tensorflow(pose, image), and
\* process_frame_for_ar on the same frame.
EnhanceCall ==
    /\ ~en_out.called
    /\ en_out' = [EnhancePose(en_in) EXCEPT
                     !.frame_result =
                         ProcessFrameWithEstimator(
                             en_in.estimator, en_in.frame,
                             [is_dict |-> TRUE, type |-> "evening_gown"])]
    /\ UNCHANGED en_in
    /\ UNCHANGED not_evars

\* The next frame arrives.
EnhanceNextFrame ==
    /\ en_out.called
    /\ en_in' \in EnhanceInputs
    /\ en_out' = NoEnhancement
    /\ UNCHANGED not_evars

NextEnhance == EnhanceCall \/ EnhanceNextFrame

SpecEnhance == InitEnhance /\ [][NextEnhance]_vars

\* What a call that never blocks the primary path returns, whatever failed:
\* no exception, the primary pose, and the frame result of the primary
\* pipeline as with a loaded estimator.
NeverBlocks ==
    /\ ~en_out.raised
    /\ en_out.mediapipe_pose
    /\ \A e \in {"no_tensorflow", "load_failed", "loaded"} :
          en_out.frame_result =
              ProcessFrameWithEstimator(
                  e, en_in.frame, [is_dict |-> TRUE, type |-> "evening_gown"])

\* C25 as stated: enhance_pose_with_tensorflow never raises and leaves the
\* primary pipeline as it is; and when the secondary model is unavailable, or
\* its inference or the fusion step fails, the result carries the primary
\* pose, no tensorflow_pose and an empty enhanced_landmarks list.
C25_FailureLeavesNoTensorflowPose ==
    en_out.called =>
        /\ NeverBlocks
        /\ (EstimateRaises(en_in) \/ FusionFails(en_in)) =>
              /\ ~en_out.tensorflow_pose
              /\ ~en_out.enhanced_landmarks

\* C25 amended: enhance_pose_with_tensorflow never raises and leaves the
\* primary pipeline as it is; when the secondary model is unavailable or its
\* inference fails, the result carries the primary pose, no tensorflow_pose
\* and an empty enhanced_landmarks list; when segmentation or the fusion step
\* fails, it carries the primary pose, the tensorflow_pose already obtained
\* and an empty enhanced_landmarks list.
C25_EnhancementNeverBlocks ==
    en_out.called =>
        /\ NeverBlocks
        /\ EstimateRaises(en_in) =>
              /\ ~en_out.tensorflow_pose
              /\ ~en_out.enhanced_landmarks
        /\ (~EstimateRaises(en_in)
              /\ (en_in.segment = "raise" \/ FusionFails(en_in))) =>
              /\ en_out.tensorflow_pose
              /\ ~en_out.enhanced_landmarks

\* C25 witness: with a loaded estimator the fusion step failed on a frame
\* whose pose the primary pipeline rendered; the result holds the primary
\* pose and the tensorflow_pose, and no enhanced landmark.
C25_Witness ==
    /\ en_out.called /\ ~en_out.raised
    /\ FusionFails(en_in)
    /\ en_out.mediapipe_pose /\ en_out.tensorflow_pose
    /\ en_out.confidence_comparison /\ ~en_out.enhanced_landmarks
    /\ en_out.frame_result.success

----------------------------------------------------------------------------
\* The per-session counters of the AR WebSocket (ar_augmentation.py:164-174,
\* 201-226).

\* Connection c reads a 'frame' message for which process_frame_for_ar
\* returns a result.
FrameProcessedStep(c) ==
    \E fi \in WireFrames, cfg \in Configs :
        /\ RecvFrame(c, fi, cfg)
        /\ ~ProcessFrame(fi, cfg).raised

\* Connection c reads a 'change_dress', 'get_session_info' or 'ping' message.
OtherMessageStep(c) ==
    \/ \E cfg \in Configs : RecvChangeDress(c, cfg)
    \/ \E a \in {"session_info", "pong"} : RecvQuery(c, a)

\* The record of c's session id exists before and after the step.
RecordKept(c) ==
    /\ path_sid[c] \in DOMAIN user_sessions
    /\ path_sid[c] \in DOMAIN user_sessions'

\* C26: a 'frame' message for which the pipeline returned a result raises
\* the frame_count of the connection's session by exactly 1; change_dress,
\* get_session_info and ping leave it unchanged; and while a connection is
\* inside its loop the frame_count of its session never decreases.
C26_FrameCountCountsFrames ==
    [][\A c \in Conns :
          LET sid == path_sid[c]
          IN  /\ FrameProcessedStep(c) =>
                    /\ RecordKept(c)
                    /\ user_sessions'[sid].frame_count =
                           user_sessions[sid].frame_count + 1
              /\ (OtherMessageStep(c) /\ RecordKept(c)) =>
                    user_sessions'[sid].frame_count =
                        user_sessions[sid].frame_count
              /\ (pc[c] \in {"recv", "send"} /\ pc'[c] \in {"recv", "send"}
                    /\ RecordKept(c)) =>
                    user_sessions'[sid].frame_count >=
                        user_sessions[sid].frame_count]_vars

----------------------------------------------------------------------------
\* What a failed frame result gives the caller to display
\* (ar_augmentation_service.py:120-127, 155-164).

\* C27: whenever the input decodes to an image, a success=false result of
\* process_frame_for_ar (no pose detected, or an error in detection or in a
\* later stage) carries a frame of the resolution of the decoded frame, not
\* of the resized working copy; and when no pose is detected its message is
\* 'No pose detected'.
C27_FailureCarriesOriginalFrame ==
    (rs_out.called /\ ~rs_out.success) =>
        /\ rs_out.frame_shape = rs_shape
        /\ rs_out.message # "none"
        /\ rs_pose = "nopose" => rs_out.message = "No pose detected"

\* C27 witness: on a frame wider than max_width, detection ran on the resized
\* copy and found a pose, a later stage raised, and the result carries the
\* frame at its own size.
C27_Witness ==
    /\ rs_out.called /\ ~rs_out.success
    /\ rs_shape[2] > MaxWidth
    /\ rs_pose = "pose" /\ rs_late = "raise"
    /\ rs_out.detect_shape # rs_shape
    /\ rs_out.frame_shape = rs_shape
    /\ rs_out.message = "Processing error"

----------------------------------------------------------------------------
\* The two dicts of ARConnectionManager (ar_augmentation.py:23-43, 401-412).

\* C28: in every reachable state, after any interleaving of connect, message
\* handling, disconnect and DELETE termination, active_connections and
\* user_sessions have the same keys: a session id has a socket if and only if
\* it has a session record.
C28_RegistriesShareKeys ==
    DOMAIN active_connections = DOMAIN user_sessions

\* C28 witness: s2 has been registered and released by its handler's exit,
\* while s1, whose socket the DELETE endpoint is closing, is still in both
\* dicts with a counted frame.
C28_Witness ==
    /\ path_sid["c2"] = "s2" /\ pc["c2"] = "done"
    /\ t_pc = "closing" /\ t_sid = "s1"
    /\ DOMAIN active_connections = {"s1"}
    /\ DOMAIN user_sessions = {"s1"}
    /\ user_sessions["s1"].frame_count >= 1

----------------------------------------------------------------------------
\* Garment types without a rendering method
\* (ar_augmentation_service.py:171-195, ar_models.py:11-18).

\* The types _apply_dress_augmentation dispatches on.
RenderedTypes ==
    {"evening_gown", "wedding_dress", "cocktail_dress", "formal_gown"}

\* The frame result of the pipeline around a rendering call that returned,
\* on a frame with a pose whose other stages succeed.
ResultAfterRender(config) ==
    ProcessFrame([decode |-> "image", detect |-> "pose", render |-> "ok",
                  measure |-> "ok", encode |-> "ok"],
                 [is_dict |-> TRUE, type |-> config.type])

\* C29: when dress_config's type is none of evening_gown, wedding_dress,
\* cocktail_dress and formal_gown (casual_dress, prom_dress or an unknown
\* string), _apply_dress_augmentation draws no polygon and blends nothing,
\* so the frame it returns equals its input, and the frame result reports
\* success with measurements.
C29_UnrenderedTypesLeaveFrame ==
    (rd_out.called /\ DressType(rd_config) \notin RenderedTypes) =>
        /\ rd_out.drawn = {}
        /\ ~rd_out.blended
        /\ ResultAfterRender(rd_config).success
        /\ ResultAfterRender(rd_config).measurements

\* C29 witness: a prom_dress config with colours and opacity given, on a pose
\* with every anchor present, was rendered: nothing was drawn or blended.
C29_Witness ==
    /\ rd_out.called
    /\ rd_config.type = "prom_dress"
    /\ rd_config.opacity = Present(70)
    /\ rd_config.bodice_color.set
    /\ rd_points = AllPoints /\ rd_low = {}
    /\ rd_out.drawn = {} /\ ~rd_out.blended

----------------------------------------------------------------------------
\* Text that is no JSON, on either WebSocket (ar_augmentation.py:136-142,
\* 228-232; measurements.py:267-278).

\* The AR handler after such a message: out of its loop, its session id in
\* neither dict, nothing being sent, no further read.
MalformedEndsArSession(c) ==
    /\ pc'[c] = "done"
    /\ path_sid[c] \notin DOMAIN active_connections'
    /\ path_sid[c] \notin DOMAIN user_sessions'
    /\ pending'[c] = NoPending(c)
    /\ ~CanReceive(c)'

\* The measurement handler after such a message: 'Invalid data format' is on
\* its way to the connection that sent the message, which stays registered.
MalformedIsAnswered(c) ==
    /\ m_pc'[c] = "send"
    /\ m_pending'[c].type = "invalid_format"
    /\ m_pending'[c].target = c
    /\ c \in m_active_connections'
    /\ m_uid[c] \in DOMAIN m_user_connections'

\* C30: on the AR WebSocket a text message that is no valid JSON ends the
\* session (the handler leaves its loop, the session id leaves both
\* registries, no response is sent, no further message is read), whereas on
\* the measurement WebSocket it is answered with 'Invalid data format' and
\* the connection stays registered in its loop.
C30_MalformedInput ==
    [][/\ \A c \in Conns : RecvMalformed(c) => MalformedEndsArSession(c)
       /\ \A c \in Conns : MRecvMalformed(c) => MalformedIsAnswered(c)]_vars

====
